---------------------------- MODULE Spec2Model ----------------------------
(***************************************************************************)
(* A model of glox, a tree-walking interpreter for the Lox language.       *)
(*                                                                         *)
(* The pipeline of Interp.Run is modelled stage by stage, each Go function *)
(* as one operator that takes the state of its receiver and returns the    *)
(* new state: Scanner (source text -> tokens), Parser (tokens -> AST),     *)
(* Resolver (AST -> scope distances) and the evaluator (AST -> effects).   *)
(*                                                                         *)
(* Conventions                                                             *)
(*  - a rune slice is a sequence of one-character strings;                 *)
(*  - Go slices keep their 0-based indices: element i of a Go slice s is   *)
(*    s[i + 1] here;                                                       *)
(*  - a Go map is a function whose DOMAIN is the set of its keys;          *)
(*  - a Go panic is a field of the threaded state (panicking / crash /     *)
(*    ctl) that every caller tests before it goes on, which is what the    *)
(*    unwinding of the Go stack does;                                      *)
(*  - a Lox number (float64) is an integer: the scripts of this model use  *)
(*    whole numbers and the operators + - * and the comparisons only.      *)
(***************************************************************************)
EXTENDS Integers, Sequences, FiniteSets, TLC

VARIABLES
    interp,     \* the fields of the Interp object (flags, locals, env)
    envs,       \* the heap of environment frames (*env), by allocation order
    insts,      \* the heap of class instances (*loxInstance)
    out,        \* what was written to the configured output writer (i.out)
    errOut,     \* what was written to the configured error writer (i.errOut)
    stdout,     \* what was written to the process's os.Stdout
    stderr,     \* what was written to the process's os.Stderr
    crashed,    \* an uncaught Go panic ended the process
    runs,       \* the number of calls of Run so far
    last        \* the script of the latest Run and the stream lengths before it

vars == <<interp, envs, insts, out, errOut, stdout, stderr, crashed, runs, last>>

-----------------------------------------------------------------------------
(* A local variable of a Go function that holds the result of a call is    *)
(* bound by Bind(e, LAMBDA x : body): e is evaluated, then the body with x  *)
(* standing for its value, as Go evaluates x := e before going on.  Other   *)
(* locals are LET definitions.                                              *)

Bind(v, K(_)) == IF v = v THEN K(v) ELSE K(v)

-----------------------------------------------------------------------------
(* Go maps *)

EmptyMap == [x \in {} |-> x]

Has(m, k) == k \in DOMAIN m

Put(m, k, v) == [x \in (DOMAIN m) \cup {k} |-> IF x = k THEN v ELSE m[x]]

RECURSIVE Str(_)
\* string(runes): the Go string of a rune slice
Str(cs) == IF cs = <<>> THEN "" ELSE Head(cs) \o Str(Tail(cs))

\* []rune(s): the characters of a Go string, each as a one-character string
Runes(s) == [i \in 1..Len(s) |-> SubSeq(s, i, i)]

-----------------------------------------------------------------------------
(* Scanner *)

Digits == <<"0", "1", "2", "3", "4", "5", "6", "7", "8", "9">>

Letters ==
    {"a", "b", "c", "d", "e", "f", "g", "h", "i", "j", "k", "l", "m",
     "n", "o", "p", "q", "r", "s", "t", "u", "v", "w", "x", "y", "z",
     "A", "B", "C", "D", "E", "F", "G", "H", "I", "J", "K", "L", "M",
     "N", "O", "P", "Q", "R", "S", "T", "U", "V", "W", "X", "Y", "Z"}

\* the rune 0 that peek and peekNext return at the end of the source
NUL == "NUL"

isDigit(c) == \E i \in 1..Len(Digits) : Digits[i] = c

isAlpha(c) == c \in Letters \/ c = "_"

isAlphaNumeric(c) == isAlpha(c) \/ isDigit(c)

keywords ==
    [x \in {"and", "class", "else", "false", "for", "fun", "if", "nil", "or",
            "print", "return", "super", "this", "true", "var", "while"} |->
        CASE x = "and" -> "AndToken"
          [] x = "class" -> "ClassToken"
          [] x = "else" -> "ElseToken"
          [] x = "false" -> "FalseToken"
          [] x = "for" -> "ForToken"
          [] x = "fun" -> "FunToken"
          [] x = "if" -> "IfToken"
          [] x = "nil" -> "NilToken"
          [] x = "or" -> "OrToken"
          [] x = "print" -> "PrintToken"
          [] x = "return" -> "ReturnToken"
          [] x = "super" -> "SuperToken"
          [] x = "this" -> "ThisToken"
          [] x = "true" -> "TrueToken"
          [] x = "var" -> "VarToken"
          [] x = "while" -> "WhileToken"]

\* a Token; its Lexeme is the raw substring of the source, as runes
Token(type, lexeme, line) == [Type |-> type, Lexeme |-> lexeme, Line |-> line]

\* Token.Lexeme as a Go string
Lex(token) == Str(token.Lexeme)

Scanner_isAtEnd(s) == s.current >= Len(s.source)

Scanner_advance(s) == [s |-> [s EXCEPT !.current = @ + 1], c |-> s.source[s.current + 1]]

Scanner_match(s, expected) ==
    IF Scanner_isAtEnd(s) THEN [s |-> s, ok |-> FALSE]
    ELSE IF s.source[s.current + 1] # expected THEN [s |-> s, ok |-> FALSE]
    ELSE [s |-> [s EXCEPT !.current = @ + 1], ok |-> TRUE]

Scanner_peek(s) == IF Scanner_isAtEnd(s) THEN NUL ELSE s.source[s.current + 1]

Scanner_peekNext(s) ==
    IF s.current + 1 >= Len(s.source) THEN NUL ELSE s.source[s.current + 2]

Scanner_reportError(s, message) ==
    [s EXCEPT !.errs = Append(@, "[line " \o ToString(s.line) \o "] Error: " \o message),
              !.hadError = TRUE]

Scanner_addToken(s, tokenType) ==
    LET text == SubSeq(s.source, s.start + 1, s.current)
    IN [s EXCEPT !.tokens = Append(@, Token(tokenType, text, s.line))]

RECURSIVE Scanner_comment(_)
\* the loop of scanToken that skips a comment to the end of its line
Scanner_comment(s) ==
    IF Scanner_peek(s) # "\n" /\ ~Scanner_isAtEnd(s)
    THEN Scanner_comment(Scanner_advance(s).s)
    ELSE s

RECURSIVE Scanner_stringLoop(_)
Scanner_stringLoop(s) ==
    IF Scanner_peek(s) # "\"" /\ ~Scanner_isAtEnd(s)
    THEN LET s1 == IF Scanner_peek(s) = "\n" THEN [s EXCEPT !.line = @ + 1] ELSE s
         IN Scanner_stringLoop(Scanner_advance(s1).s)
    ELSE s

Scanner_string(s) ==
    LET s1 == Scanner_stringLoop(s)
    IN IF Scanner_isAtEnd(s1)
       THEN Scanner_reportError(s1, "Unterminated string.")
       ELSE Scanner_addToken(Scanner_advance(s1).s, "StringToken")

RECURSIVE Scanner_digits(_)
Scanner_digits(s) ==
    IF isDigit(Scanner_peek(s)) THEN Scanner_digits(Scanner_advance(s).s) ELSE s

\* a number that takes a '.' whatever follows it
number_dotAlways(s) ==
    LET s1 == Scanner_digits(s)
        s2 == IF Scanner_peek(s1) = "." THEN Scanner_advance(s1).s ELSE s1
    IN Scanner_addToken(Scanner_digits(s2), "NumberToken")

Scanner_number(s) ==
    LET s1 == Scanner_digits(s)
        s2 == IF Scanner_peek(s1) = "." /\ isDigit(Scanner_peekNext(s1))
              THEN Scanner_advance(s1).s
              ELSE s1
    IN Scanner_addToken(Scanner_digits(s2), "NumberToken")

RECURSIVE Scanner_identLoop(_)
Scanner_identLoop(s) ==
    IF isAlphaNumeric(Scanner_peek(s)) THEN Scanner_identLoop(Scanner_advance(s).s) ELSE s

Scanner_identifier(s) ==
    LET s1 == Scanner_identLoop(s)
        text == Str(SubSeq(s1.source, s1.start + 1, s1.current))
    IN Scanner_addToken(s1, IF Has(keywords, text) THEN keywords[text] ELSE "IdentifierToken")

Scanner_twoChar(s, second, double, single) ==
    LET m == Scanner_match(s, second)
    IN IF m.ok THEN Scanner_addToken(m.s, double) ELSE Scanner_addToken(m.s, single)

Scanner_scanToken(s0) ==
    LET a == Scanner_advance(s0)
        s == a.s
        c == a.c
    IN CASE c = "(" -> Scanner_addToken(s, "LeftParenToken")
         [] c = ")" -> Scanner_addToken(s, "RightParenToken")
         [] c = "{" -> Scanner_addToken(s, "LeftBraceToken")
         [] c = "}" -> Scanner_addToken(s, "RightBraceToken")
         [] c = "," -> Scanner_addToken(s, "CommaToken")
         [] c = "." -> Scanner_addToken(s, "DotToken")
         [] c = "-" -> Scanner_addToken(s, "MinusToken")
         [] c = "+" -> Scanner_addToken(s, "PlusToken")
         [] c = ";" -> Scanner_addToken(s, "SemicolonToken")
         [] c = "*" -> Scanner_addToken(s, "StarToken")
         [] c = "!" -> Scanner_twoChar(s, "=", "BangEqualToken", "BangToken")
         [] c = "=" -> Scanner_twoChar(s, "=", "EqualEqualToken", "EqualToken")
         [] c = "<" -> Scanner_twoChar(s, "=", "LessEqualToken", "LessToken")
         [] c = ">" -> Scanner_twoChar(s, "=", "GreaterEqualToken", "GreaterToken")
         [] c = "/" -> LET m == Scanner_match(s, "/")
                       IN IF m.ok THEN Scanner_comment(m.s)
                          ELSE Scanner_addToken(m.s, "SlashToken")
         [] c \in {" ", "\r", "\t"} -> s
         [] c = "\n" -> [s EXCEPT !.line = @ + 1]
         [] c = "\"" -> Scanner_string(s)
         [] OTHER -> IF isDigit(c) THEN Scanner_number(s)
                     ELSE IF isAlpha(c) THEN Scanner_identifier(s)
                     ELSE Scanner_reportError(s, "Unexpected character.")

RECURSIVE scanLoop_stopAtError(_, _)
\* a loop of ScanTokens that ends at the first error
scanLoop_stopAtError(s, n) ==
    IF Scanner_isAtEnd(s) \/ n = 0 \/ s.hadError THEN s
    ELSE IF n = 1 THEN Scanner_scanToken([s EXCEPT !.start = s.current])
    ELSE scanLoop_stopAtError(scanLoop_stopAtError(s, n \div 2), n - n \div 2)

RECURSIVE Scanner_scanLoop(_, _)
\* n turns of the loop of ScanTokens, for !isAtEnd() { start = current;
\* scanToken() }.  A turn consumes at least one rune, so the loop is over
\* after len(source) turns; the turns are taken half by half, each half
\* finished before the next begins, which keeps the evaluation shallow
Scanner_scanLoop(s, n) ==
    IF Scanner_isAtEnd(s) \/ n = 0 THEN s
    ELSE IF n = 1 THEN Scanner_scanToken([s EXCEPT !.start = s.current])
    ELSE Scanner_scanLoop(Scanner_scanLoop(s, n \div 2), n - n \div 2)

\* ScanTokens, with the scanner's error writer collected in errs
Scanner_ScanTokens(source) ==
    LET s0 == [source |-> Runes(source), tokens |-> <<>>, start |-> 0, current |-> 0,
               line |-> 1, hadError |-> FALSE, errs |-> <<>>]
        s1 == Scanner_scanLoop(s0, Len(s0.source))
    IN [s1 EXCEPT !.tokens = Append(@, Token("EndToken", <<>>, s1.line))]

-----------------------------------------------------------------------------
(* Values of the language (the dynamic types an interface{} holds) *)

Nil == [t |-> "nil"]

Bool(b) == [t |-> "bool", v |-> b]

Num(n) == [t |-> "num", v |-> n]

StrV(s) == [t |-> "str", v |-> s]

-----------------------------------------------------------------------------
(* AST nodes.  A node that the resolver can key (VarExpr, AssignExpr,      *)
(* ThisExpr, SuperExpr) carries id, the order of its allocation: the       *)
(* identity that a Go pointer to the node has.                             *)

NilNode == [k |-> "nil"]

NilToken == [Type |-> "nil", Lexeme |-> <<>>, Line |-> 0]

newBlockStmt(statements) == [k |-> "BlockStmt", Statements |-> statements]

-----------------------------------------------------------------------------
(* Parser *)

MaxParams == 255

RECURSIVE ParseDigits(_, _)
ParseDigits(cs, acc) ==
    IF cs = <<>> \/ ~isDigit(Head(cs)) THEN acc
    ELSE ParseDigits(Tail(cs),
                     10 * acc + (CHOOSE i \in 1..Len(Digits) : Digits[i] = Head(cs)) - 1)

RECURSIVE AfterDot(_)
AfterDot(cs) ==
    IF cs = <<>> THEN <<>> ELSE IF Head(cs) = "." THEN Tail(cs) ELSE AfterDot(Tail(cs))

\* strconv.ParseFloat of a number lexeme: the whole part as an integer; a
\* fractional part, which integers cannot hold, is kept beside it
ParseFloat(cs) ==
    IF AfterDot(cs) = <<>> THEN Num(ParseDigits(cs, 0))
    ELSE [t |-> "num", v |-> ParseDigits(cs, 0), frac |-> Str(AfterDot(cs))]

RECURSIVE TrimLeft(_, _)
TrimLeft(cs, c) == IF cs # <<>> /\ Head(cs) = c THEN TrimLeft(Tail(cs), c) ELSE cs

RECURSIVE TrimRight(_, _)
TrimRight(cs, c) ==
    IF cs # <<>> /\ cs[Len(cs)] = c THEN TrimRight(SubSeq(cs, 1, Len(cs) - 1), c) ELSE cs

\* strings.Trim(s, cutset) for a cutset of one character
Trim(cs, c) == TrimRight(TrimLeft(cs, c), c)

NewParser(tokens, nid) ==
    [tokens |-> tokens, current |-> 0, hadError |-> FALSE, errs |-> <<>>,
     panicking |-> FALSE, crash |-> FALSE, nid |-> nid]

Parser_peek(p) == p.tokens[p.current + 1]

Parser_previous(p) == p.tokens[p.current]

Parser_isAtEnd(p) == Parser_peek(p).Type = "EndToken"

\* advance returns previous(): tokens[-1] when nothing was consumed yet is an
\* index out of range, a Go runtime panic that no recover of the parser stops
Parser_advance(p) ==
    LET p1 == IF ~Parser_isAtEnd(p) THEN [p EXCEPT !.current = @ + 1] ELSE p
    IN IF p1.current = 0
       THEN [p |-> [p1 EXCEPT !.crash = TRUE, !.panicking = TRUE], tok |-> NilToken]
       ELSE [p |-> p1, tok |-> Parser_previous(p1)]

Parser_check(p, tokenType) ==
    IF Parser_isAtEnd(p) THEN FALSE ELSE Parser_peek(p).Type = tokenType

Parser_match(p, types) ==
    IF \E tokenType \in types : Parser_check(p, tokenType)
    THEN [p |-> Parser_advance(p).p, ok |-> TRUE]
    ELSE [p |-> p, ok |-> FALSE]

Parser_reportError(p, token, msg) ==
    LET where == IF token.Type = "EndToken" THEN "at end"
                 ELSE "at '" \o Lex(token) \o "'"
    IN [p EXCEPT !.errs = Append(@, "[line " \o ToString(token.Line) \o "] Error "
                                     \o where \o ": " \o msg),
                 !.hadError = TRUE]

\* panic(errParser)
Parser_panic(p) == [p EXCEPT !.panicking = TRUE]

Parser_consume(p, tokenType, msg) ==
    IF Parser_check(p, tokenType) THEN Parser_advance(p)
    ELSE [p |-> Parser_panic(Parser_reportError(p, Parser_peek(p), msg)), tok |-> NilToken]

RECURSIVE synchronizeLoop_semicolonOnly(_)
\* the loop of synchronize that stops after a ';' only
synchronizeLoop_semicolonOnly(p) ==
    IF ~Parser_isAtEnd(p)
    THEN IF Parser_previous(p).Type = "SemicolonToken" THEN p
         ELSE synchronizeLoop_semicolonOnly(Parser_advance(p).p)
    ELSE p

RECURSIVE Parser_synchronizeLoop(_)
Parser_synchronizeLoop(p) ==
    IF ~Parser_isAtEnd(p)
    THEN IF Parser_previous(p).Type = "SemicolonToken" THEN p
         ELSE IF Parser_peek(p).Type \in {"ClassToken", "FunToken", "VarToken", "ForToken",
                                         "IfToken", "WhileToken", "PrintToken", "ReturnToken"}
              THEN p
         ELSE Parser_synchronizeLoop(Parser_advance(p).p)
    ELSE p

\* synchronize without its first advance: the loop reads previous() where
\* the error was found, which at position zero is an index out of range
synchronize_noAdvance(p) ==
    IF p.current = 0 THEN [p EXCEPT !.crash = TRUE, !.panicking = TRUE]
    ELSE Parser_synchronizeLoop(p)

Parser_synchronize(p) ==
    LET a == Parser_advance(p)
    IN IF a.p.crash THEN a.p ELSE Parser_synchronizeLoop(a.p)

\* the result of a parsing rule that ends in a panic
Unwound(p) == [p |-> p, e |-> NilNode]

RECURSIVE Parser_declaration(_), Parser_statement(_), Parser_expression(_),
          Parser_assignment(_), Parser_unary(_), Parser_blockLoop(_),
          Parser_argumentsLoop(_, _)

Parser_primary(p) ==
    CASE Parser_check(p, "FalseToken") ->
           [p |-> Parser_advance(p).p, e |-> [k |-> "Lit", Value |-> Bool(FALSE)]]
      [] Parser_check(p, "TrueToken") ->
           [p |-> Parser_advance(p).p, e |-> [k |-> "Lit", Value |-> Bool(TRUE)]]
      [] Parser_check(p, "NilToken") ->
           [p |-> Parser_advance(p).p, e |-> [k |-> "Lit", Value |-> Nil]]
      [] Parser_check(p, "NumberToken") ->
           LET a == Parser_advance(p)
           IN [p |-> a.p, e |-> [k |-> "Lit", Value |-> ParseFloat(a.tok.Lexeme)]]
      [] Parser_check(p, "StringToken") ->
           LET a == Parser_advance(p)
           IN [p |-> a.p,
               e |-> [k |-> "Lit", Value |-> StrV(Str(Trim(a.tok.Lexeme, "\"")))]]
      [] Parser_check(p, "SuperToken") ->
           LET a == Parser_advance(p)
               d == Parser_consume(a.p, "DotToken", "Expect '.' after 'super'.")
               m == Parser_consume(d.p, "IdentifierToken", "Expect superclass method name")
           IN IF d.p.panicking THEN Unwound(d.p)
              ELSE IF m.p.panicking THEN Unwound(m.p)
              ELSE [p |-> [m.p EXCEPT !.nid = @ + 1],
                    e |-> [k |-> "SuperExpr", Keyword |-> a.tok, Method |-> m.tok,
                           id |-> m.p.nid]]
      [] Parser_check(p, "ThisToken") ->
           LET a == Parser_advance(p)
           IN [p |-> [a.p EXCEPT !.nid = @ + 1],
               e |-> [k |-> "ThisExpr", Keyword |-> a.tok, id |-> a.p.nid]]
      [] Parser_check(p, "IdentifierToken") ->
           LET a == Parser_advance(p)
           IN [p |-> [a.p EXCEPT !.nid = @ + 1],
               e |-> [k |-> "VarExpr", Name |-> a.tok, id |-> a.p.nid]]
      [] Parser_check(p, "LeftParenToken") ->
           Bind(Parser_expression(Parser_advance(p).p), LAMBDA r :
               IF r.p.panicking THEN r
               ELSE LET c == Parser_consume(r.p, "RightParenToken",
                                            "Expect ')' after expression.")
                    IN IF c.p.panicking THEN Unwound(c.p)
                       ELSE [p |-> c.p, e |-> [k |-> "GroupingExpr", Expression |-> r.e]])
      [] OTHER ->
           Unwound(Parser_panic(Parser_reportError(p, Parser_peek(p), "Expect expression.")))

\* the do-while loop of arguments(): one expression, then one more after each ','
Parser_argumentsLoop(p, arguments) ==
    LET p1 == IF Len(arguments) >= MaxParams
              THEN Parser_reportError(p, Parser_peek(p), "Can't have more than 255 arguments.")
              ELSE p
    IN Bind(Parser_expression(p1), LAMBDA r :
           IF r.p.panicking THEN [p |-> r.p, args |-> arguments]
           ELSE LET m == Parser_match(r.p, {"CommaToken"})
                IN IF m.ok THEN Parser_argumentsLoop(m.p, Append(arguments, r.e))
                   ELSE [p |-> m.p, args |-> Append(arguments, r.e)])

Parser_arguments(p) ==
    IF ~Parser_check(p, "RightParenToken") THEN Parser_argumentsLoop(p, <<>>)
    ELSE [p |-> p, args |-> <<>>]

RECURSIVE Parser_callLoop(_, _)
Parser_callLoop(p, expr) ==
    CASE Parser_check(p, "LeftParenToken") ->
           Bind(Parser_arguments(Parser_advance(p).p), LAMBDA a :
               IF a.p.panicking THEN Unwound(a.p)
               ELSE LET c == Parser_consume(a.p, "RightParenToken",
                                            "Expect ')' after arguments.")
                    IN IF c.p.panicking THEN Unwound(c.p)
                       ELSE Parser_callLoop(c.p, [k |-> "CallExpr", Callee |-> expr,
                                                  Paren |-> c.tok, Arguments |-> a.args]))
      [] Parser_check(p, "DotToken") ->
           LET c == Parser_consume(Parser_advance(p).p, "IdentifierToken",
                                   "Expect property name after '.'.")
           IN IF c.p.panicking THEN Unwound(c.p)
              ELSE Parser_callLoop(c.p, [k |-> "GetExpr", Object |-> expr, Name |-> c.tok])
      [] OTHER -> [p |-> p, e |-> expr]

Parser_call(p) ==
    Bind(Parser_primary(p), LAMBDA r :
        IF r.p.panicking THEN r ELSE Parser_callLoop(r.p, r.e))

Parser_unary(p) ==
    LET m == Parser_match(p, {"BangToken", "MinusToken"})
    IN IF ~m.ok THEN Parser_call(p)
       ELSE Bind(Parser_unary(m.p), LAMBDA r :
                IF r.p.panicking THEN r
                ELSE [p |-> r.p, e |-> [k |-> "UnaryExpr", Operator |-> Parser_previous(m.p),
                                        Expression |-> r.e]])

BinaryExpr(left, op, right) ==
    [k |-> "BinaryExpr", LeftExpression |-> left, Operator |-> op, RightExpression |-> right]

LogicalExpr(left, op, right) ==
    [k |-> "LogicalExpr", LeftExpression |-> left, Operator |-> op, RightExpression |-> right]

RECURSIVE Parser_factorLoop(_, _, _)
\* the loop of factor, entered where an operand begins: expr and operator are
\* the expression so far and the operator that follows it, nil before the
\* first operand; the loop goes on while an operator of the level follows
Parser_factorLoop(p, expr, operator) ==
    Bind(Parser_unary(p), LAMBDA right :
        IF right.p.panicking THEN right
        ELSE LET e == IF expr = NilNode THEN right.e ELSE BinaryExpr(expr, operator, right.e)
                 m == Parser_match(right.p, {"SlashToken", "StarToken"})
             IN IF m.ok THEN Parser_factorLoop(m.p, e, Parser_previous(m.p))
                ELSE [p |-> right.p, e |-> e])

Parser_factor(p) == Parser_factorLoop(p, NilNode, NilToken)

RECURSIVE Parser_termLoop(_, _, _)
Parser_termLoop(p, expr, operator) ==
    Bind(Parser_factor(p), LAMBDA right :
        IF right.p.panicking THEN right
        ELSE LET e == IF expr = NilNode THEN right.e ELSE BinaryExpr(expr, operator, right.e)
                 m == Parser_match(right.p, {"MinusToken", "PlusToken"})
             IN IF m.ok THEN Parser_termLoop(m.p, e, Parser_previous(m.p))
                ELSE [p |-> right.p, e |-> e])

Parser_term(p) == Parser_termLoop(p, NilNode, NilToken)

RECURSIVE Parser_comparisonLoop(_, _, _)
Parser_comparisonLoop(p, expr, operator) ==
    Bind(Parser_term(p), LAMBDA right :
        IF right.p.panicking THEN right
        ELSE LET e == IF expr = NilNode THEN right.e ELSE BinaryExpr(expr, operator, right.e)
                 m == Parser_match(right.p, {"GreaterToken", "GreaterEqualToken", "LessToken", "LessEqualToken"})
             IN IF m.ok THEN Parser_comparisonLoop(m.p, e, Parser_previous(m.p))
                ELSE [p |-> right.p, e |-> e])

Parser_comparison(p) == Parser_comparisonLoop(p, NilNode, NilToken)

RECURSIVE Parser_equalityLoop(_, _, _)
Parser_equalityLoop(p, expr, operator) ==
    Bind(Parser_comparison(p), LAMBDA right :
        IF right.p.panicking THEN right
        ELSE LET e == IF expr = NilNode THEN right.e ELSE BinaryExpr(expr, operator, right.e)
                 m == Parser_match(right.p, {"BangEqualToken", "EqualEqualToken"})
             IN IF m.ok THEN Parser_equalityLoop(m.p, e, Parser_previous(m.p))
                ELSE [p |-> right.p, e |-> e])

Parser_equality(p) == Parser_equalityLoop(p, NilNode, NilToken)

RECURSIVE Parser_andLoop(_, _, _)
Parser_andLoop(p, expr, operator) ==
    Bind(Parser_equality(p), LAMBDA right :
        IF right.p.panicking THEN right
        ELSE LET e == IF expr = NilNode THEN right.e ELSE LogicalExpr(expr, operator, right.e)
                 m == Parser_match(right.p, {"AndToken"})
             IN IF m.ok THEN Parser_andLoop(m.p, e, Parser_previous(m.p))
                ELSE [p |-> right.p, e |-> e])

Parser_and(p) == Parser_andLoop(p, NilNode, NilToken)

RECURSIVE Parser_orLoop(_, _, _)
Parser_orLoop(p, expr, operator) ==
    Bind(Parser_and(p), LAMBDA right :
        IF right.p.panicking THEN right
        ELSE LET e == IF expr = NilNode THEN right.e ELSE LogicalExpr(expr, operator, right.e)
                 m == Parser_match(right.p, {"OrToken"})
             IN IF m.ok THEN Parser_orLoop(m.p, e, Parser_previous(m.p))
                ELSE [p |-> right.p, e |-> e])

Parser_or(p) == Parser_orLoop(p, NilNode, NilToken)

Parser_assignment(p) ==
    Bind(Parser_or(p), LAMBDA r :
        IF r.p.panicking THEN r
        ELSE LET m == Parser_match(r.p, {"EqualToken"})
                 equals == Parser_previous(m.p)
             IN IF ~m.ok THEN r
                ELSE Bind(Parser_assignment(m.p), LAMBDA v :
                    CASE v.p.panicking -> v
                      [] ~v.p.panicking /\ r.e.k = "VarExpr" ->
                           [p |-> [v.p EXCEPT !.nid = @ + 1],
                            e |-> [k |-> "AssignExpr", Name |-> r.e.Name, Value |-> v.e,
                                   id |-> v.p.nid]]
                      [] ~v.p.panicking /\ r.e.k = "GetExpr" ->
                           [p |-> v.p,
                            e |-> [k |-> "SetExpr", Object |-> r.e.Object,
                                   Name |-> r.e.Name, Value |-> v.e]]
                      [] OTHER ->
                           [p |-> Parser_reportError(v.p, equals, "Invalid assignment target."),
                            e |-> r.e]))

Parser_expression(p) == Parser_assignment(p)

Parser_expressionStatement(p) ==
    Bind(Parser_expression(p), LAMBDA r :
        IF r.p.panicking THEN r
        ELSE LET c == Parser_consume(r.p, "SemicolonToken", "Expect ';' after expression.")
             IN IF c.p.panicking THEN Unwound(c.p)
                ELSE [p |-> c.p, e |-> [k |-> "ExprStmt", Expression |-> r.e]])

Parser_returnStatement(p) ==
    Bind(IF ~Parser_check(p, "SemicolonToken") THEN Parser_expression(p)
         ELSE [p |-> p, e |-> NilNode], LAMBDA r :
        IF r.p.panicking THEN r
        ELSE LET c == Parser_consume(r.p, "SemicolonToken", "Expect ';' after return value.")
             IN IF c.p.panicking THEN Unwound(c.p)
                ELSE [p |-> c.p, e |-> [k |-> "ReturnStmt", Keyword |-> Parser_previous(p),
                                        Value |-> r.e]])

Parser_printStatement(p) ==
    Bind(Parser_expression(p), LAMBDA r :
        IF r.p.panicking THEN r
        ELSE LET c == Parser_consume(r.p, "SemicolonToken", "Expect ';' after value.")
             IN IF c.p.panicking THEN Unwound(c.p)
                ELSE [p |-> c.p, e |-> [k |-> "PrintStmt", Expression |-> r.e]])

\* the loop of blockStatement, on l = [p, stmts]: the parser and the
\* statements so far; a panic that declaration does not stop ends it
Parser_blockLoop(l) ==
    IF l.p.panicking \/ Parser_check(l.p, "RightBraceToken") \/ Parser_isAtEnd(l.p) THEN l
    ELSE Parser_blockLoop(Bind(Parser_declaration(l.p), LAMBDA d :
             [p |-> d.p,
              stmts |-> IF d.p.panicking THEN l.stmts ELSE Append(l.stmts, d.e)]))

Parser_blockStatement(p) ==
    Bind(Parser_blockLoop([p |-> p, stmts |-> <<>>]), LAMBDA b :
        IF b.p.panicking THEN Unwound(b.p)
        ELSE LET c == Parser_consume(b.p, "RightBraceToken", "Expect '}' after block.")
             IN IF c.p.panicking THEN Unwound(c.p)
                ELSE [p |-> c.p, e |-> [k |-> "BlockStmt", Statements |-> b.stmts]])

Parser_whileStatement(p) ==
    LET l == Parser_consume(p, "LeftParenToken", "Expect '(' after 'while'.")
    IN IF l.p.panicking THEN Unwound(l.p)
       ELSE Bind(Parser_expression(l.p), LAMBDA c :
           IF c.p.panicking THEN c
           ELSE LET r == Parser_consume(c.p, "RightParenToken",
                                        "Expect ')' after while condition.")
                IN IF r.p.panicking THEN Unwound(r.p)
                   ELSE Bind(Parser_statement(r.p), LAMBDA b :
                       IF b.p.panicking THEN b
                       ELSE [p |-> b.p,
                             e |-> [k |-> "WhileStmt", Condition |-> c.e, Body |-> b.e]]))

Parser_ifStatement(p) ==
    LET l == Parser_consume(p, "LeftParenToken", "Expect '(' after 'if'.")
    IN IF l.p.panicking THEN Unwound(l.p)
       ELSE Bind(Parser_expression(l.p), LAMBDA c :
           IF c.p.panicking THEN c
           ELSE LET r == Parser_consume(c.p, "RightParenToken",
                                        "Expect ')' after if condition.")
                IN IF r.p.panicking THEN Unwound(r.p)
                   ELSE Bind(Parser_statement(r.p), LAMBDA t :
                       IF t.p.panicking THEN t
                       ELSE LET m == Parser_match(t.p, {"ElseToken"})
                            IN Bind(IF m.ok THEN Parser_statement(m.p)
                                    ELSE [p |-> m.p, e |-> NilNode], LAMBDA el :
                                   IF el.p.panicking THEN el
                                   ELSE [p |-> el.p,
                                         e |-> [k |-> "IfStmt", Condition |-> c.e,
                                                ThenBranch |-> t.e, ElseBranch |-> el.e]])))

Parser_varDeclaration(p) ==
    LET n == Parser_consume(p, "IdentifierToken", "Expect variable name.")
        m == Parser_match(n.p, {"EqualToken"})
    IN IF n.p.panicking THEN Unwound(n.p)
       ELSE Bind(IF m.ok THEN Parser_expression(m.p) ELSE [p |-> m.p, e |-> NilNode],
                 LAMBDA i :
           IF i.p.panicking THEN i
           ELSE LET c == Parser_consume(i.p, "SemicolonToken",
                                        "Expect ';' after variable declaration.")
                IN IF c.p.panicking THEN Unwound(c.p)
                   ELSE [p |-> c.p,
                         e |-> [k |-> "VarDeclStmt", Name |-> n.tok, Initializer |-> i.e]])

\* the transformation with the increment placed before the body
forLoop_incrementFirst(initializer, condition, increment, body) ==
    LET b1 == IF increment # NilNode
              THEN newBlockStmt(<<[k |-> "ExprStmt", Expression |-> increment], body>>)
              ELSE body
        b2 == IF condition # NilNode
              THEN [k |-> "WhileStmt", Condition |-> condition, Body |-> b1]
              ELSE b1
    IN IF initializer # NilNode THEN newBlockStmt(<<initializer, b2>>) ELSE b2

\* the transformation that ends forStatement: the clauses become
\* { initializer while (condition) { body increment } }
forLoop(initializer, condition, increment, body) ==
    LET b1 == IF increment # NilNode
              THEN newBlockStmt(<<body, [k |-> "ExprStmt", Expression |-> increment]>>)
              ELSE body
        b2 == IF condition # NilNode
              THEN [k |-> "WhileStmt", Condition |-> condition, Body |-> b1]
              ELSE b1
    IN IF initializer # NilNode THEN newBlockStmt(<<initializer, b2>>) ELSE b2

Parser_forStatement(p) ==
    LET l == Parser_consume(p, "LeftParenToken", "Expect '(' after 'for'.")
    IN IF l.p.panicking THEN Unwound(l.p)
       ELSE Bind(CASE Parser_check(l.p, "SemicolonToken") ->
                        [p |-> Parser_advance(l.p).p, e |-> NilNode]
                   [] Parser_check(l.p, "VarToken") ->
                        Parser_varDeclaration(Parser_advance(l.p).p)
                   [] OTHER -> Parser_expressionStatement(l.p), LAMBDA i :
       IF i.p.panicking THEN i
       ELSE Bind(IF ~Parser_check(i.p, "SemicolonToken") THEN Parser_expression(i.p)
                 ELSE [p |-> i.p, e |-> NilNode], LAMBDA c :
       IF c.p.panicking THEN c
       ELSE LET s == Parser_consume(c.p, "SemicolonToken", "Expect ';' after loop condition.")
            IN
       IF s.p.panicking THEN Unwound(s.p)
       ELSE Bind(IF ~Parser_check(s.p, "RightParenToken") THEN Parser_expression(s.p)
                 ELSE [p |-> s.p, e |-> NilNode], LAMBDA u :
       IF u.p.panicking THEN u
       ELSE LET r == Parser_consume(u.p, "RightParenToken", "Expect ')' after for clauses.")
            IN
       IF r.p.panicking THEN Unwound(r.p)
       ELSE Bind(Parser_statement(r.p), LAMBDA b :
       IF b.p.panicking THEN b
       ELSE [p |-> b.p, e |-> forLoop(i.e, c.e, u.e, b.e)]))))

Parser_statement(p) ==
    CASE Parser_check(p, "ForToken") -> Parser_forStatement(Parser_advance(p).p)
      [] Parser_check(p, "IfToken") -> Parser_ifStatement(Parser_advance(p).p)
      [] Parser_check(p, "PrintToken") -> Parser_printStatement(Parser_advance(p).p)
      [] Parser_check(p, "ReturnToken") -> Parser_returnStatement(Parser_advance(p).p)
      [] Parser_check(p, "WhileToken") -> Parser_whileStatement(Parser_advance(p).p)
      [] Parser_check(p, "LeftBraceToken") -> Parser_blockStatement(Parser_advance(p).p)
      [] OTHER -> Parser_expressionStatement(p)

RECURSIVE Parser_paramsLoop(_, _)
\* the do-while loop of funDeclaration: one parameter, then one more after each ','
Parser_paramsLoop(p, params) ==
    LET p1 == IF Len(params) >= MaxParams
              THEN Parser_reportError(p, Parser_peek(p), "Can't have more than 255 parameters.")
              ELSE p
    IN Bind(Parser_consume(p1, "IdentifierToken", "Expect parameter name."), LAMBDA c :
           IF c.p.panicking THEN [p |-> c.p, params |-> params]
           ELSE LET m == Parser_match(c.p, {"CommaToken"})
                IN IF m.ok THEN Parser_paramsLoop(m.p, Append(params, c.tok))
                   ELSE [p |-> m.p, params |-> Append(params, c.tok)])

Parser_funDeclaration(p, kind) ==
    LET n == Parser_consume(p, "IdentifierToken", "Expect " \o kind \o " name.")
        l == Parser_consume(n.p, "LeftParenToken", "Expect '(' after " \o kind \o " name.")
    IN IF n.p.panicking THEN Unwound(n.p)
       ELSE IF l.p.panicking THEN Unwound(l.p)
       ELSE Bind(IF ~Parser_check(l.p, "RightParenToken") THEN Parser_paramsLoop(l.p, <<>>)
                 ELSE [p |-> l.p, params |-> <<>>], LAMBDA ps :
       IF ps.p.panicking THEN Unwound(ps.p)
       ELSE LET r == Parser_consume(ps.p, "RightParenToken", "Expect ')' after parameters.")
                lb == Parser_consume(r.p, "LeftBraceToken",
                                     "Expect '{' before " \o kind \o " body.")
            IN
       IF r.p.panicking THEN Unwound(r.p)
       ELSE IF lb.p.panicking THEN Unwound(lb.p)
       ELSE Bind(Parser_blockStatement(lb.p), LAMBDA b :
       IF b.p.panicking THEN b
       ELSE [p |-> b.p, e |-> [k |-> "FunDeclStmt", Name |-> n.tok, Params |-> ps.params,
                               Body |-> b.e.Statements]]))

RECURSIVE Parser_methodsLoop(_)
\* the loop of classDeclaration over the methods of the class body, on
\* l = [p, methods]
Parser_methodsLoop(l) ==
    IF l.p.panicking \/ Parser_check(l.p, "RightBraceToken") \/ Parser_isAtEnd(l.p) THEN l
    ELSE Parser_methodsLoop(Bind(Parser_funDeclaration(l.p, "method"), LAMBDA f :
             [p |-> f.p,
              methods |-> IF f.p.panicking THEN l.methods ELSE Append(l.methods, f.e)]))

Parser_classDeclaration(p) ==
    LET n == Parser_consume(p, "IdentifierToken", "Expect class name.")
        m == Parser_match(n.p, {"LessToken"})
    IN IF n.p.panicking THEN Unwound(n.p)
       ELSE Bind(IF m.ok THEN Parser_consume(m.p, "IdentifierToken", "Expect superclass name.")
                 ELSE [p |-> m.p, tok |-> NilToken], LAMBDA sn :
       IF sn.p.panicking THEN Unwound(sn.p)
       ELSE Bind(IF m.ok
                 THEN [p |-> [sn.p EXCEPT !.nid = @ + 1],
                       e |-> [k |-> "VarExpr", Name |-> Parser_previous(sn.p), id |-> sn.p.nid]]
                 ELSE [p |-> sn.p, e |-> NilNode], LAMBDA sc :
       LET lb == Parser_consume(sc.p, "LeftBraceToken", "Expect '{' before class body.")
       IN
       IF lb.p.panicking THEN Unwound(lb.p)
       ELSE Bind(Parser_methodsLoop([p |-> lb.p, methods |-> <<>>]), LAMBDA ms :
       IF ms.p.panicking THEN Unwound(ms.p)
       ELSE LET rb == Parser_consume(ms.p, "RightBraceToken", "Expect '}' after class body.")
            IN
       IF rb.p.panicking THEN Unwound(rb.p)
       ELSE [p |-> rb.p, e |-> [k |-> "ClassDeclStmt", Name |-> n.tok, Superclass |-> sc.e,
                                Methods |-> ms.methods]])))

\* declaration recovers from errParser by synchronizing and yields a nil
\* statement; any other panic goes on unwinding
Parser_declaration(p) ==
    Bind(CASE Parser_check(p, "ClassToken") -> Parser_classDeclaration(Parser_advance(p).p)
           [] Parser_check(p, "FunToken") ->
                Parser_funDeclaration(Parser_advance(p).p, "function")
           [] Parser_check(p, "VarToken") -> Parser_varDeclaration(Parser_advance(p).p)
           [] OTHER -> Parser_statement(p),
         LAMBDA r :
             IF r.p.crash THEN Unwound(r.p)
             ELSE IF r.p.panicking
             THEN Unwound(Parser_synchronize([r.p EXCEPT !.panicking = FALSE]))
             ELSE r)

RECURSIVE Parser_parseLoop(_)
\* the loop of Parse, on l = [p, stmts]; a Go runtime panic ends it
Parser_parseLoop(l) ==
    IF l.p.crash \/ Parser_isAtEnd(l.p) THEN l
    ELSE Parser_parseLoop(Bind(Parser_declaration(l.p), LAMBDA d :
             [p |-> d.p, stmts |-> IF d.p.crash THEN l.stmts ELSE Append(l.stmts, d.e)]))

\* Parse: the statements, and the parser as it is left
Parser_Parse(p) == Parser_parseLoop([p |-> p, stmts |-> <<>>])


-----------------------------------------------------------------------------
(* The resolver.  A Resolver is the record                                  *)
(*   [scopes, currentFunctionScope, currentClassScope, hadError, errs,      *)
(*    locals, crash]                                                        *)
(* where scopes is the scope stack (a sequence of maps from names to        *)
(* booleans), locals is the interpreter's side table that Interp.resolve    *)
(* fills (expression id -> depth), errs are the lines written to os.Stderr  *)
(* and crash tells that a Go panic is unwinding through the resolver: no    *)
(* function of the resolver recovers, so every step after it is skipped.    *)

outsideFunction == "outsideFunction"
inFunction == "inFunction"
inInitializer == "inInitializer"
inMethod == "inMethod"

outsideClass == "outsideClass"
inClass == "inClass"

NewResolver(locals) ==
    [scopes |-> <<>>, currentFunctionScope |-> outsideFunction,
     currentClassScope |-> outsideClass, hadError |-> FALSE, errs |-> <<>>,
     locals |-> locals, crash |-> FALSE]

scopeStack_peek(scopes) == scopes[Len(scopes)]
scopeStack_isEmpty(scopes) == Len(scopes) = 0

Resolver_reportError(r, token, msg) ==
    LET where == IF token.Type = "EndToken" THEN "at end"
                 ELSE "at '" \o Lex(token) \o "'"
    IN IF r.crash THEN r
       ELSE [r EXCEPT !.errs = Append(@, "[line " \o ToString(token.Line) \o "] Error "
                                          \o where \o ": " \o msg),
                      !.hadError = TRUE]

Resolver_beginScope(r) ==
    IF r.crash THEN r ELSE [r EXCEPT !.scopes = Append(@, EmptyMap)]

Resolver_endScope(r) ==
    IF r.crash THEN r ELSE [r EXCEPT !.scopes = SubSeq(@, 1, Len(@) - 1)]

\* declare without the test for a name that the scope already holds
declare_unchecked(r, name) ==
    IF r.crash \/ scopeStack_isEmpty(r.scopes) THEN r
    ELSE [r EXCEPT !.scopes[Len(r.scopes)] = Put(@, Lex(name), FALSE)]

Resolver_declare(r, name) ==
    IF r.crash \/ scopeStack_isEmpty(r.scopes) THEN r
    ELSE LET r1 == IF Has(scopeStack_peek(r.scopes), Lex(name))
                   THEN Resolver_reportError(r, name, "Variable already declared in this scope.")
                   ELSE r
         IN [r1 EXCEPT !.scopes[Len(r.scopes)] = Put(@, Lex(name), FALSE)]

Resolver_define(r, name) ==
    IF r.crash \/ scopeStack_isEmpty(r.scopes) THEN r
    ELSE [r EXCEPT !.scopes[Len(r.scopes)] = Put(@, Lex(name), TRUE)]

\* Interp.resolve: the depth of the expression goes into the side table
Interp_resolve(locals, expr, depth) == Put(locals, expr.id, depth)

RECURSIVE Resolver_resolveLocalFrom(_, _, _, _)
\* the loop of resolveLocal, from scope i (0-based) down to the outermost
Resolver_resolveLocalFrom(r, expr, name, i) ==
    IF i < 0 THEN r
    ELSE IF Has(r.scopes[i + 1], Lex(name))
    THEN [r EXCEPT !.locals = Interp_resolve(@, expr, Len(r.scopes) - 1 - i)]
    ELSE Resolver_resolveLocalFrom(r, expr, name, i - 1)

Resolver_resolveLocal(r, expr, name) ==
    IF r.crash THEN r ELSE Resolver_resolveLocalFrom(r, expr, name, Len(r.scopes) - 1)

Resolver_resolveVarExpr(r, expr) ==
    LET sc == scopeStack_peek(r.scopes)
        r1 == IF ~scopeStack_isEmpty(r.scopes) /\ Has(sc, Lex(expr.Name))
                 /\ ~sc[Lex(expr.Name)]
              THEN Resolver_reportError(r, expr.Name,
                                        "Can't read local variable in its own initializer")
              ELSE r
    IN Resolver_resolveLocal(r1, expr, expr.Name)

Resolver_resolveThisExpr(r, expr) ==
    LET r1 == IF r.currentClassScope = outsideClass
              THEN Resolver_reportError(r, expr.Keyword, "can't use 'this' outside of a class.")
              ELSE r
    IN Resolver_resolveLocal(r1, expr, expr.Keyword)

RECURSIVE Resolver_resolveExpr(_, _), Resolver_resolveExprs(_, _, _)
\* resolveExpr with the per-kind functions it dispatches to; a kind without
\* a case panics
Resolver_resolveExpr(r, expr) ==
    IF r.crash THEN r
    ELSE CASE expr.k = "Lit" -> r
           [] expr.k = "GroupingExpr" -> Resolver_resolveExpr(r, expr.Expression)
           [] expr.k = "UnaryExpr" -> Resolver_resolveExpr(r, expr.Expression)
           [] expr.k \in {"BinaryExpr", "LogicalExpr"} ->
                Resolver_resolveExpr(Resolver_resolveExpr(r, expr.LeftExpression),
                                     expr.RightExpression)
           [] expr.k = "VarExpr" -> Resolver_resolveVarExpr(r, expr)
           [] expr.k = "AssignExpr" ->
                Resolver_resolveLocal(Resolver_resolveExpr(r, expr.Value), expr, expr.Name)
           [] expr.k = "CallExpr" ->
                Resolver_resolveExprs(Resolver_resolveExpr(r, expr.Callee), expr.Arguments, 1)
           [] expr.k = "ThisExpr" -> Resolver_resolveThisExpr(r, expr)
           [] expr.k = "GetExpr" -> Resolver_resolveExpr(r, expr.Object)
           [] expr.k = "SetExpr" ->
                Resolver_resolveExpr(Resolver_resolveExpr(r, expr.Value), expr.Object)
           [] OTHER -> [r EXCEPT !.crash = TRUE]

\* the loop of resolveCallExpr over the arguments
Resolver_resolveExprs(r, args, n) ==
    IF n > Len(args) THEN r
    ELSE Resolver_resolveExprs(Resolver_resolveExpr(r, args[n]), args, n + 1)

RECURSIVE Resolver_declareParams(_, _, _)
\* the loop of resolveFunction over the parameters
Resolver_declareParams(r, params, n) ==
    IF n > Len(params) THEN r
    ELSE Resolver_declareParams(Resolver_define(Resolver_declare(r, params[n]), params[n]),
                                params, n + 1)

RECURSIVE Resolver_resolveStmt(_, _), Resolver_resolveFrom(_, _, _),
          Resolver_resolveMethods(_, _, _)

\* resolve: the statements in order
Resolver_resolve(r, statements) == Resolver_resolveFrom(r, statements, 1)

Resolver_resolveFrom(r, statements, n) ==
    IF n > Len(statements) THEN r
    ELSE Resolver_resolveFrom(Resolver_resolveStmt(r, statements[n]), statements, n + 1)

\* resolveFunction that leaves currentFunctionScope as the body had it
resolveFunction_scopeKept(r, stmt, newScope) ==
    LET r1 == Resolver_beginScope([r EXCEPT !.currentFunctionScope = newScope])
        r2 == Resolver_declareParams(r1, stmt.Params, 1)
    IN Resolver_endScope(Resolver_resolve(r2, stmt.Body))

Resolver_resolveFunction(r, stmt, newScope) ==
    LET enclosingFunctionScope == r.currentFunctionScope
        r1 == Resolver_beginScope([r EXCEPT !.currentFunctionScope = newScope])
        r2 == Resolver_declareParams(r1, stmt.Params, 1)
        r3 == Resolver_endScope(Resolver_resolve(r2, stmt.Body))
    IN IF r3.crash THEN r3
       ELSE [r3 EXCEPT !.currentFunctionScope = enclosingFunctionScope]

\* the loop of resolveClassDeclStmt over the methods
Resolver_resolveMethods(r, methods, n) ==
    IF n > Len(methods) THEN r
    ELSE LET declaration == IF Lex(methods[n].Name) = "init" THEN inInitializer ELSE inMethod
         IN Resolver_resolveMethods(Resolver_resolveFunction(r, methods[n], declaration),
                                    methods, n + 1)

Resolver_resolveClassDeclStmt(r, stmt) ==
    LET enclosingClassScope == r.currentClassScope
        r1 == Resolver_define(Resolver_declare([r EXCEPT !.currentClassScope = inClass],
                                               stmt.Name), stmt.Name)
        r2 == Resolver_beginScope(r1)
        r3 == [r2 EXCEPT !.scopes[Len(r2.scopes)] = Put(@, "this", TRUE)]
        r4 == Resolver_endScope(Resolver_resolveMethods(r3, stmt.Methods, 1))
    IN IF r4.crash THEN r4
       ELSE [r4 EXCEPT !.currentClassScope = enclosingClassScope]

Resolver_resolveReturnStmt(r, stmt) ==
    LET r1 == IF r.currentFunctionScope = outsideFunction
              THEN Resolver_reportError(r, stmt.Keyword, "Can't return from top-level code.")
              ELSE r
        r2 == IF r1.currentFunctionScope = inInitializer /\ stmt.Value # NilNode
              THEN Resolver_reportError(r1, stmt.Keyword,
                                        "Can't return a value from an initializer")
              ELSE r1
    IN IF stmt.Value # NilNode THEN Resolver_resolveExpr(r2, stmt.Value) ELSE r2

Resolver_resolveVarDeclStmt(r, stmt) ==
    LET r1 == Resolver_declare(r, stmt.Name)
        r2 == IF stmt.Initializer # NilNode THEN Resolver_resolveExpr(r1, stmt.Initializer)
              ELSE r1
    IN Resolver_define(r2, stmt.Name)

Resolver_resolveIfStmt(r, stmt) ==
    LET r1 == Resolver_resolveStmt(Resolver_resolveExpr(r, stmt.Condition), stmt.ThenBranch)
    IN IF stmt.ElseBranch # NilNode THEN Resolver_resolveStmt(r1, stmt.ElseBranch) ELSE r1

\* resolveStmt with the small per-kind functions it dispatches to; a nil
\* statement has no case and panics
Resolver_resolveStmt(r, stmt) ==
    IF r.crash THEN r
    ELSE CASE stmt.k = "ReturnStmt" -> Resolver_resolveReturnStmt(r, stmt)
           [] stmt.k \in {"PrintStmt", "ExprStmt"} -> Resolver_resolveExpr(r, stmt.Expression)
           [] stmt.k = "IfStmt" -> Resolver_resolveIfStmt(r, stmt)
           [] stmt.k = "WhileStmt" ->
                Resolver_resolveStmt(Resolver_resolveExpr(r, stmt.Condition), stmt.Body)
           [] stmt.k = "VarDeclStmt" -> Resolver_resolveVarDeclStmt(r, stmt)
           [] stmt.k = "ClassDeclStmt" -> Resolver_resolveClassDeclStmt(r, stmt)
           [] stmt.k = "FunDeclStmt" ->
                Resolver_resolveFunction(Resolver_define(Resolver_declare(r, stmt.Name),
                                                         stmt.Name), stmt, inFunction)
           [] stmt.k = "BlockStmt" ->
                Resolver_endScope(Resolver_resolve(Resolver_beginScope(r), stmt.Statements))
           [] OTHER -> [r EXCEPT !.crash = TRUE]


-----------------------------------------------------------------------------
(* The evaluator.  The state that the Go code reaches through pointers is   *)
(* threaded through every operator as the record st:                        *)
(*   envs    the heap of frames, envs[e] = [values, enclosing], where       *)
(*           enclosing = 0 is the nil pointer; frame 1 is globalEnv         *)
(*   insts   the heap of instances, insts[r] = [class, fields]              *)
(*   env     i.env, the current frame                                       *)
(*   locals  i.locals                                                       *)
(*   out     the lines written to i.out                                     *)
(*   nid     the next fresh address (the identity of a new Go object)       *)
(*   now     what time.Now().Unix() returns                                 *)
(*   ctl     "ok", or the panic that is unwinding the Go stack: "return"    *)
(*           (a returnValue), "rte" (a runtimeError) or "crash" (any other  *)
(*           panic: a string, a failed type assertion, a nil dereference)   *)
(*   val     the value just computed, or the value of the returnValue       *)
(*   err     the runtimeError: [token, message]                             *)

\* further dynamic types of an interface{}
Clock == [t |-> "clock"]

Int64(n) == [t |-> "int64", v |-> n]

LoxFunction(addr, decl, closure, isInitializer) ==
    [t |-> "fun", addr |-> addr, decl |-> decl, closure |-> closure,
     isInitializer |-> isInitializer]

LoxClass(addr, name, superclass, methods) ==
    [t |-> "class", addr |-> addr, Name |-> name, Superclass |-> superclass,
     Methods |-> methods]

LoxInstance(ref) == [t |-> "inst", ref |-> ref]

GlobalEnv == 1

Ok(st) == st.ctl = "ok"

Value(st, v) == [st EXCEPT !.val = v]

\* panic(runtimeError{token, message})
RuntimeError(st, token, message) ==
    [st EXCEPT !.ctl = "rte", !.err = [token |-> token, message |-> message]]

\* any panic that is neither a runtimeError nor a returnValue
GoPanic(st) == [st EXCEPT !.ctl = "crash"]

\* newEnv: the new frame is envs[Len(envs) + 1]
newEnv(st, enclosing) ==
    [st EXCEPT !.envs = Append(@, [values |-> EmptyMap, enclosing |-> enclosing])]

env_define(st, e, name, value) ==
    [st EXCEPT !.envs[e].values = Put(@, name, value)]

RECURSIVE env_get(_, _, _)
env_get(st, e, name) ==
    IF Has(st.envs[e].values, Lex(name)) THEN Value(st, st.envs[e].values[Lex(name)])
    ELSE IF st.envs[e].enclosing # 0 THEN env_get(st, st.envs[e].enclosing, name)
    ELSE RuntimeError(st, name, "Undefined variable '" \o Lex(name) \o "'.")

RECURSIVE env_ancestor(_, _, _)
\* ancestor: distance steps along enclosing (none for a distance below 1);
\* -1 stands for the nil dereference of a step taken from the nil frame
env_ancestor(envs_, e, distance) ==
    IF distance <= 0 THEN e
    ELSE IF e = 0 THEN -1
    ELSE env_ancestor(envs_, envs_[e].enclosing, distance - 1)

\* getAt: a name that the frame does not hold reads as nil, and reading the
\* nil frame is a nil dereference
env_getAt(st, e, distance, name) ==
    LET a == env_ancestor(st.envs, e, distance)
    IN IF a <= 0 THEN GoPanic(st)
       ELSE IF Has(st.envs[a].values, name) THEN Value(st, st.envs[a].values[name])
       ELSE Value(st, Nil)

\* assign that writes the receiver frame, as define does
assign_inReceiver(st, e, name, value) == env_define(st, e, Lex(name), value)

RECURSIVE env_assign(_, _, _, _)
env_assign(st, e, name, value) ==
    IF Has(st.envs[e].values, Lex(name)) THEN env_define(st, e, Lex(name), value)
    ELSE IF st.envs[e].enclosing # 0 THEN env_assign(st, st.envs[e].enclosing, name, value)
    ELSE RuntimeError(st, name, "Undefined variable '" \o Lex(name) \o "'.")

env_assignAt(st, e, distance, name, value) ==
    LET a == env_ancestor(st.envs, e, distance)
    IN IF a <= 0 THEN GoPanic(st) ELSE env_define(st, a, name, value)

\* lookupVariable without the distances of the resolver: the name is searched
\* from the current frame outwards
lookupVariable_dynamic(st, name, expr) == env_get(st, st.env, name)

Interp_lookupVariable(st, name, expr) ==
    IF Has(st.locals, expr.id) THEN env_getAt(st, st.env, st.locals[expr.id], Lex(name))
    ELSE env_get(st, GlobalEnv, name)

Interp_assignVariable(st, expr, value) ==
    IF Has(st.locals, expr.id)
    THEN env_assignAt(st, st.env, st.locals[expr.id], Lex(expr.Name), value)
    ELSE env_assign(st, GlobalEnv, expr.Name, value)

isTruthy(lit) ==
    IF lit = Nil THEN FALSE
    ELSE IF lit.t = "bool" THEN lit.v
    ELSE TRUE

\* Go's == on two interface values: the same dynamic type and equal values
\* (pointers by address)
isEqual(left, right) == left.t = right.t /\ left = right

isNumber(value) == value.t = "num"

isString(value) == value.t = "str"

\* fmt's %v of a float64 that holds a whole number
FormatFloat(n) == IF n < 0 THEN "-" \o ToString(0 - n) ELSE ToString(n)

loxFunction_String(f) == "<fun " \o Lex(f.decl.Name) \o ">"

loxClass_String(c) == "<class " \o c.Name \o ">"

loxInstance_String(st, i) == "<instance " \o st.insts[i.ref].class.Name \o ">"

\* fmt.Sprintf("%v", lit) for the dynamic types a Lox value can have
Sprintv(st, lit) ==
    CASE lit.t = "str" -> lit.v
      [] lit.t = "num" -> FormatFloat(lit.v)
      [] lit.t = "bool" -> IF lit.v THEN "true" ELSE "false"
      [] lit.t = "fun" -> loxFunction_String(lit)
      [] lit.t = "class" -> loxClass_String(lit)
      [] lit.t = "inst" -> loxInstance_String(st, lit)
      [] lit.t = "clock" -> "<native fn>"
      [] lit.t = "int64" -> FormatFloat(lit.v)

stringify(st, lit) == IF lit = Nil THEN "nil" ELSE Sprintv(st, lit)

\* toString: the string in val, or the panic of the default case
toString(st, value) ==
    IF value = Nil THEN Value(st, "nil")
    ELSE IF value.t \in {"str", "num", "bool", "fun", "class", "inst"}
    THEN Value(st, Sprintv(st, value))
    ELSE GoPanic(st)

\* toNumber, applied to both operands of a binary operator, left first
toNumbers(st, operator, left, right) ==
    IF ~isNumber(left) \/ ~isNumber(right)
    THEN RuntimeError(st, operator, "Operand must be a number.")
    ELSE st

\* findMethod that looks in the method table of the class only
findMethod_ownOnly(c, name) ==
    IF Has(c.Methods, name) THEN c.Methods[name] ELSE Nil

RECURSIVE loxClass_findMethod(_, _)
\* findMethod: the method, or Nil when no class of the chain has it
loxClass_findMethod(c, name) ==
    IF Has(c.Methods, name) THEN c.Methods[name]
    ELSE IF c.Superclass # Nil THEN loxClass_findMethod(c.Superclass, name)
    ELSE Nil

\* bind: a new function over a new frame that holds "this"
loxFunction_bind(st, f, instance) ==
    LET env == Len(st.envs) + 1
        s1 == env_define(newEnv(st, f.closure), env, "this", instance)
    IN [s1 EXCEPT !.val = LoxFunction(s1.nid, f.decl, env, f.isInitializer),
                  !.nid = @ + 1]

loxFunction_arity(f) == Len(f.decl.Params)

loxClass_arity(c) ==
    IF loxClass_findMethod(c, "init") # Nil
    THEN loxFunction_arity(loxClass_findMethod(c, "init"))
    ELSE 0

\* loxInstance.get that looks for a method before it looks for a field
get_methodFirst(st, i, name) ==
    LET method == loxClass_findMethod(st.insts[i.ref].class, Lex(name))
    IN IF method # Nil THEN loxFunction_bind(st, method, i)
       ELSE IF Has(st.insts[i.ref].fields, Lex(name))
       THEN Value(st, st.insts[i.ref].fields[Lex(name)])
       ELSE RuntimeError(st, name, "Undefined field or method '" \o Lex(name) \o "'.")

\* loxInstance.get that binds a function found in a field to the instance
\* it is read from
get_fieldRebound(st, i, name) ==
    LET method == loxClass_findMethod(st.insts[i.ref].class, Lex(name))
        field == st.insts[i.ref].fields[Lex(name)]
    IN IF Has(st.insts[i.ref].fields, Lex(name))
       THEN IF field.t = "fun"
            THEN loxFunction_bind(st, [field EXCEPT !.closure =
                                                       st.envs[field.closure].enclosing], i)
            ELSE Value(st, field)
       ELSE IF method # Nil THEN loxFunction_bind(st, method, i)
       ELSE RuntimeError(st, name, "Undefined field or method '" \o Lex(name) \o "'.")

\* loxInstance.get: a field first, then a method of the class, bound
loxInstance_get(st, i, name) ==
    LET method == loxClass_findMethod(st.insts[i.ref].class, Lex(name))
    IN IF Has(st.insts[i.ref].fields, Lex(name))
       THEN Value(st, st.insts[i.ref].fields[Lex(name)])
       ELSE IF method # Nil THEN loxFunction_bind(st, method, i)
       ELSE RuntimeError(st, name, "Undefined field or method '" \o Lex(name) \o "'.")

loxInstance_set(st, i, name, value) ==
    [st EXCEPT !.insts[i.ref].fields = Put(@, Lex(name), value)]


RECURSIVE Interp_evaluate(_, _), Interp_execute(_, _), Interp_executeFrom(_, _, _),
          Interp_evaluateArgs(_, _, _, _), Interp_executeWhileStmt(_, _),
          loxFunction_call(_, _, _)

\* evaluateSuper: a value that is not of the asserted pointer type (nil
\* included) fails the type assertion
Interp_evaluateSuper(st, expr) ==
    LET distance == IF Has(st.locals, expr.id) THEN st.locals[expr.id] ELSE 0
        s1 == env_getAt(st, st.env, distance, "super")
        superclass == s1.val
        s2 == env_getAt(s1, s1.env, distance - 1, "this")
        this == s2.val
        method == loxClass_findMethod(superclass, Lex(expr.Method))
    IN IF ~Ok(s1) THEN s1
       ELSE IF superclass.t # "class" THEN GoPanic(s1)
       ELSE IF ~Ok(s2) THEN s2
       ELSE IF this.t # "inst" THEN GoPanic(s2)
       ELSE IF method # Nil THEN loxFunction_bind(s2, method, this)
       ELSE RuntimeError(s2, expr.Method, "Undefined method '" \o Lex(expr.Method) \o "'.")

\* evaluateLogical that evaluates both operands before it chooses
evaluateLogical_eager(st, expr) ==
    Bind(Interp_evaluate(st, expr.LeftExpression), LAMBDA s1 :
        IF ~Ok(s1) THEN s1
        ELSE Bind(Interp_evaluate(s1, expr.RightExpression), LAMBDA s2 :
            IF ~Ok(s2) THEN s2
            ELSE IF expr.Operator.Type = "OrToken"
            THEN IF isTruthy(s1.val) THEN Value(s2, s1.val) ELSE s2
            ELSE IF ~isTruthy(s1.val) THEN Value(s2, s1.val) ELSE s2))

\* evaluateLogical that yields the truth value of the chosen operand
evaluateLogical_coerced(st, expr) ==
    Bind(Interp_evaluate(st, expr.LeftExpression), LAMBDA s1 :
        IF ~Ok(s1) THEN s1
        ELSE Bind(IF (expr.Operator.Type = "OrToken") = isTruthy(s1.val) THEN s1
                  ELSE Interp_evaluate(s1, expr.RightExpression), LAMBDA s2 :
            IF ~Ok(s2) THEN s2
            ELSE Value(s2, Bool(isTruthy(s2.val)))))

Interp_evaluateLogical(st, expr) ==
    Bind(Interp_evaluate(st, expr.LeftExpression), LAMBDA s1 :
        CASE ~Ok(s1) -> s1
          [] Ok(s1) /\ expr.Operator.Type = "OrToken" ->
               IF isTruthy(s1.val) THEN s1 ELSE Interp_evaluate(s1, expr.RightExpression)
          [] Ok(s1) /\ expr.Operator.Type = "AndToken" ->
               IF ~isTruthy(s1.val) THEN s1 ELSE Interp_evaluate(s1, expr.RightExpression)
          [] OTHER -> GoPanic(s1))

Interp_evaluateAssign(st, expr) ==
    Bind(Interp_evaluate(st, expr.Value), LAMBDA s1 :
        IF ~Ok(s1) THEN s1
        ELSE Bind(Interp_assignVariable(s1, expr, s1.val), LAMBDA s2 :
            IF ~Ok(s2) THEN s2 ELSE Value(s2, s1.val)))

Interp_evaluateUnary(st, expr) ==
    Bind(Interp_evaluate(st, expr.Expression), LAMBDA s1 :
        CASE ~Ok(s1) -> s1
          [] Ok(s1) /\ expr.Operator.Type = "MinusToken" ->
               IF isNumber(s1.val) THEN Value(s1, Num(0 - s1.val.v))
               ELSE RuntimeError(s1, expr.Operator, "Operand must be a number.")
          [] Ok(s1) /\ expr.Operator.Type = "BangToken" -> Value(s1, Bool(~isTruthy(s1.val)))
          [] OTHER -> Value(s1, Nil))

\* the switch of evaluateBinary, once both operands are evaluated
BinaryOp(st, op, left, right) ==
    LET n == toNumbers(st, op, left, right)
        l == toString(st, left)
        r == toString(l, right)
    IN CASE op.Type = "MinusToken" -> IF Ok(n) THEN Value(n, Num(left.v - right.v)) ELSE n
         [] op.Type = "SlashToken" ->
              IF Ok(n) THEN Value(n, [t |-> "num", v |-> left.v, over |-> right.v]) ELSE n
         [] op.Type = "StarToken" -> IF Ok(n) THEN Value(n, Num(left.v * right.v)) ELSE n
         [] op.Type = "PlusToken" ->
              IF isNumber(left) /\ isNumber(right) THEN Value(st, Num(left.v + right.v))
              ELSE IF isString(left) \/ isString(right)
              THEN IF ~Ok(l) THEN l
                   ELSE IF ~Ok(r) THEN r
                   ELSE Value(st, StrV(l.val \o r.val))
              ELSE RuntimeError(st, op, "Operands must be two numbers or at least one string.")
         [] op.Type = "GreaterToken" -> IF Ok(n) THEN Value(n, Bool(left.v > right.v)) ELSE n
         [] op.Type = "GreaterEqualToken" ->
              IF Ok(n) THEN Value(n, Bool(left.v >= right.v)) ELSE n
         [] op.Type = "LessToken" -> IF Ok(n) THEN Value(n, Bool(left.v < right.v)) ELSE n
         [] op.Type = "LessEqualToken" ->
              IF Ok(n) THEN Value(n, Bool(left.v <= right.v)) ELSE n
         [] op.Type = "BangEqualToken" -> Value(st, Bool(~isEqual(left, right)))
         [] op.Type = "EqualEqualToken" -> Value(st, Bool(isEqual(left, right)))
         [] OTHER -> Value(st, Nil)

Interp_evaluateBinary(st, expr) ==
    Bind(Interp_evaluate(st, expr.LeftExpression), LAMBDA s1 :
        IF ~Ok(s1) THEN s1
        ELSE Bind(Interp_evaluate(s1, expr.RightExpression), LAMBDA s2 :
            IF ~Ok(s2) THEN s2
            ELSE BinaryOp(s2, expr.Operator, s1.val, s2.val)))

\* the loop of evaluateCall over the arguments; the values are left in val
Interp_evaluateArgs(st, args, n, arguments) ==
    IF n > Len(args) THEN Value(st, arguments)
    ELSE Bind(Interp_evaluate(st, args[n]), LAMBDA s1 :
             IF ~Ok(s1) THEN s1
             ELSE Interp_evaluateArgs(s1, args, n + 1, Append(arguments, s1.val)))

\* clock.call
clock_call(st) == Value(st, Int64(st.now))

\* loxClass.call: a new instance, initialized by init when the class has one
loxClass_call(st, c, args) ==
    LET instance == LoxInstance(Len(st.insts) + 1)
        s1 == [st EXCEPT !.insts = Append(@, [class |-> c, fields |-> EmptyMap])]
        initializer == loxClass_findMethod(c, "init")
    IN IF initializer = Nil THEN Value(s1, instance)
       ELSE Bind(loxFunction_bind(s1, initializer, instance), LAMBDA s2 :
                Bind(loxFunction_call(s2, s2.val, args), LAMBDA s3 :
                    IF ~Ok(s3) THEN s3 ELSE Value(s3, instance)))

IsCallable(v) == v.t \in {"fun", "class", "clock"}

Arity(v) ==
    CASE v.t = "fun" -> loxFunction_arity(v)
      [] v.t = "class" -> loxClass_arity(v)
      [] v.t = "clock" -> 0

\* evaluateCall that looks at the callee before it evaluates the arguments
evaluateCall_checkFirst(st, c) ==
    Bind(Interp_evaluate(st, c.Callee), LAMBDA s1 :
        CASE ~Ok(s1) -> s1
          [] Ok(s1) /\ ~IsCallable(s1.val) ->
               RuntimeError(s1, c.Paren, "Can only call functions and classes.")
          [] OTHER ->
        Bind(Interp_evaluateArgs(s1, c.Arguments, 1, <<>>), LAMBDA s2 :
            CASE ~Ok(s2) -> s2
              [] Ok(s2) /\ Len(s2.val) # Arity(s1.val) ->
                   RuntimeError(s2, c.Paren, "Expected " \o ToString(Arity(s1.val))
                                              \o " arguments but got "
                                              \o ToString(Len(s2.val)) \o ".")
              [] OTHER ->
                   CASE s1.val.t = "fun" -> loxFunction_call(s2, s1.val, s2.val)
                     [] s1.val.t = "class" -> loxClass_call(s2, s1.val, s2.val)
                     [] s1.val.t = "clock" -> clock_call(s2)))

Interp_evaluateCall(st, c) ==
    Bind(Interp_evaluate(st, c.Callee), LAMBDA s1 :
        IF ~Ok(s1) THEN s1
        ELSE Bind(Interp_evaluateArgs(s1, c.Arguments, 1, <<>>), LAMBDA s2 :
            CASE ~Ok(s2) -> s2
              [] Ok(s2) /\ ~IsCallable(s1.val) ->
                   RuntimeError(s2, c.Paren, "Can only call functions and classes.")
              [] Ok(s2) /\ IsCallable(s1.val) /\ Len(s2.val) # Arity(s1.val) ->
                   RuntimeError(s2, c.Paren, "Expected " \o ToString(Arity(s1.val))
                                              \o " arguments but got "
                                              \o ToString(Len(s2.val)) \o ".")
              [] OTHER ->
                   CASE s1.val.t = "fun" -> loxFunction_call(s2, s1.val, s2.val)
                     [] s1.val.t = "class" -> loxClass_call(s2, s1.val, s2.val)
                     [] s1.val.t = "clock" -> clock_call(s2)))

Interp_evaluateGet(st, expr) ==
    Bind(Interp_evaluate(st, expr.Object), LAMBDA s1 :
        IF ~Ok(s1) THEN s1
        ELSE IF s1.val.t # "inst"
        THEN RuntimeError(s1, expr.Name, "Only class instances have fields.")
        ELSE loxInstance_get(s1, s1.val, expr.Name))

Interp_evaluateSet(st, expr) ==
    Bind(Interp_evaluate(st, expr.Object), LAMBDA s1 :
        IF ~Ok(s1) THEN s1
        ELSE IF s1.val.t # "inst"
        THEN RuntimeError(s1, expr.Name, "Only class instances have fields.")
        ELSE Bind(Interp_evaluate(s1, expr.Value), LAMBDA s2 :
            IF ~Ok(s2) THEN s2
            ELSE Value(loxInstance_set(s2, s1.val, expr.Name, s2.val), s2.val)))

Interp_evaluate(st, expr) ==
    CASE expr.k = "Lit" -> Value(st, expr.Value)
      [] expr.k = "GroupingExpr" -> Interp_evaluate(st, expr.Expression)
      [] expr.k = "UnaryExpr" -> Interp_evaluateUnary(st, expr)
      [] expr.k = "BinaryExpr" -> Interp_evaluateBinary(st, expr)
      [] expr.k = "LogicalExpr" -> Interp_evaluateLogical(st, expr)
      [] expr.k = "VarExpr" -> Interp_lookupVariable(st, expr.Name, expr)
      [] expr.k = "ThisExpr" -> Interp_lookupVariable(st, expr.Keyword, expr)
      [] expr.k = "SuperExpr" -> Interp_evaluateSuper(st, expr)
      [] expr.k = "AssignExpr" -> Interp_evaluateAssign(st, expr)
      [] expr.k = "CallExpr" -> Interp_evaluateCall(st, expr)
      [] expr.k = "GetExpr" -> Interp_evaluateGet(st, expr)
      [] expr.k = "SetExpr" -> Interp_evaluateSet(st, expr)
      [] OTHER -> GoPanic(st)


\* executeBlockStmt that restores i.env at its end only, without defer
executeBlockStmt_noDefer(st, statements, blockEnv) ==
    Bind(Interp_executeFrom([st EXCEPT !.env = blockEnv], statements, 1), LAMBDA s :
        IF Ok(s) THEN [s EXCEPT !.env = st.env] ELSE s)

\* executeBlockStmt: the statements run in blockEnv, and the deferred
\* function restores i.env however the block is left
Interp_executeBlockStmt(st, statements, blockEnv) ==
    [Interp_executeFrom([st EXCEPT !.env = blockEnv], statements, 1) EXCEPT !.env = st.env]

\* a loop over statements: the first panic ends it
Interp_executeFrom(st, statements, n) ==
    IF n > Len(statements) \/ ~Ok(st) THEN st
    ELSE Interp_executeFrom(Interp_execute(st, statements[n]), statements, n + 1)

RECURSIVE loxFunction_defineParams(_, _, _, _, _)
\* the loop of loxFunction.call over the parameters
loxFunction_defineParams(st, env, params, args, n) ==
    IF n > Len(params) THEN st
    ELSE loxFunction_defineParams(env_define(st, env, Lex(params[n]), args[n]),
                                  env, params, args, n + 1)

\* loxFunction.call that runs the body in the frame of the closure itself
call_inClosureFrame(st, f, args) ==
    LET env == f.closure
        s1 == loxFunction_defineParams(st, env, f.decl.Params, args, 1)
    IN Bind(Interp_executeBlockStmt(s1, f.decl.Body, env), LAMBDA s2 :
           CASE s2.ctl # "return" /\ ~Ok(s2) -> s2
             [] s2.ctl = "return" /\ ~f.isInitializer -> [s2 EXCEPT !.ctl = "ok"]
             [] Ok(s2) /\ ~f.isInitializer -> Value(s2, Nil)
             [] OTHER -> env_getAt([s2 EXCEPT !.ctl = "ok"], f.closure, 0, "this"))

\* loxFunction.call that treats an initializer like any other function
call_initializerAsFunction(st, f, args) ==
    LET env == Len(st.envs) + 1
        s1 == loxFunction_defineParams(newEnv(st, f.closure), env, f.decl.Params, args, 1)
    IN Bind(Interp_executeBlockStmt(s1, f.decl.Body, env), LAMBDA s2 :
           CASE s2.ctl # "return" /\ ~Ok(s2) -> s2
             [] s2.ctl = "return" -> [s2 EXCEPT !.ctl = "ok"]
             [] OTHER -> Value(s2, Nil))

\* loxFunction.call whose deferred function lets a returnValue go on unwinding
call_returnNotCaught(st, f, args) ==
    LET env == Len(st.envs) + 1
        s1 == loxFunction_defineParams(newEnv(st, f.closure), env, f.decl.Params, args, 1)
    IN Bind(Interp_executeBlockStmt(s1, f.decl.Body, env), LAMBDA s2 :
           CASE ~Ok(s2) -> s2
             [] Ok(s2) /\ ~f.isInitializer -> Value(s2, Nil)
             [] OTHER -> env_getAt(s2, f.closure, 0, "this"))

\* loxFunction.call: the deferred function turns a returnValue into the
\* result and lets every other panic go on
loxFunction_call(st, f, args) ==
    LET env == Len(st.envs) + 1
        s1 == loxFunction_defineParams(newEnv(st, f.closure), env, f.decl.Params, args, 1)
    IN Bind(Interp_executeBlockStmt(s1, f.decl.Body, env), LAMBDA s2 :
           CASE s2.ctl # "return" /\ ~Ok(s2) -> s2
             [] s2.ctl = "return" /\ ~f.isInitializer -> [s2 EXCEPT !.ctl = "ok"]
             [] Ok(s2) /\ ~f.isInitializer -> Value(s2, Nil)
             [] OTHER -> env_getAt([s2 EXCEPT !.ctl = "ok"], f.closure, 0, "this"))

\* executeWhileStmt: a panic in the body ends the loop, and is found where
\* the next turn would begin
Interp_executeWhileStmt(st, stmt) ==
    IF ~Ok(st) THEN st
    ELSE Bind(Interp_evaluate(st, stmt.Condition), LAMBDA s1 :
             IF ~Ok(s1) \/ ~isTruthy(s1.val) THEN s1
             ELSE Interp_executeWhileStmt(Interp_execute(s1, stmt.Body), stmt))

Interp_executeReturnStmt(st, stmt) ==
    Bind(IF stmt.Value # NilNode THEN Interp_evaluate(st, stmt.Value) ELSE Value(st, Nil),
         LAMBDA s1 : IF ~Ok(s1) THEN s1 ELSE [s1 EXCEPT !.ctl = "return"])

Interp_executeIfStmt(st, stmt) ==
    Bind(Interp_evaluate(st, stmt.Condition), LAMBDA s1 :
        CASE ~Ok(s1) -> s1
          [] Ok(s1) /\ isTruthy(s1.val) -> Interp_execute(s1, stmt.ThenBranch)
          [] Ok(s1) /\ ~isTruthy(s1.val) /\ stmt.ElseBranch # NilNode ->
               Interp_execute(s1, stmt.ElseBranch)
          [] OTHER -> s1)

Interp_executePrintStmt(st, stmt) ==
    Bind(Interp_evaluate(st, stmt.Expression), LAMBDA s1 :
        IF ~Ok(s1) THEN s1
        ELSE [s1 EXCEPT !.out = Append(@, stringify(s1, s1.val))])

Interp_executeValDeclStmt(st, stmt) ==
    Bind(IF stmt.Initializer # NilNode THEN Interp_evaluate(st, stmt.Initializer)
         ELSE Value(st, Nil), LAMBDA s1 :
        IF ~Ok(s1) THEN s1
        ELSE env_define(s1, s1.env, Lex(stmt.Name), s1.val))

RECURSIVE Interp_classMethods(_, _, _, _, _)
\* the loop of executeClassDeclStmt over the methods: the method table, and
\* the address after the last function
Interp_classMethods(decls, n, environment, addr, methods) ==
    IF n > Len(decls) THEN [methods |-> methods, nid |-> addr]
    ELSE Interp_classMethods(decls, n + 1, environment, addr + 1,
             Put(methods, Lex(decls[n].Name),
                 LoxFunction(addr, decls[n], environment, Lex(decls[n].Name) = "init")))

Interp_executeClassDeclStmt(st, stmt) ==
    Bind(IF stmt.Superclass # NilNode THEN Interp_evaluate(st, stmt.Superclass)
         ELSE Value(st, Nil), LAMBDA s1 :
        IF ~Ok(s1) THEN s1
        ELSE IF stmt.Superclass # NilNode /\ s1.val.t # "class"
        THEN RuntimeError(s1, stmt.Superclass.Name, "Superclass must be a class.")
        ELSE Bind(env_define(s1, s1.env, Lex(stmt.Name), Nil), LAMBDA s2 :
            LET environment == IF stmt.Superclass # NilNode THEN Len(s2.envs) + 1 ELSE s2.env
                s3 == IF stmt.Superclass # NilNode
                      THEN env_define(newEnv(s2, s2.env), environment, "super", s1.val)
                      ELSE s2
            IN Bind(Interp_classMethods(stmt.Methods, 1, environment, s3.nid, EmptyMap),
                    LAMBDA ms :
                   env_assign([s3 EXCEPT !.nid = ms.nid + 1], s3.env, stmt.Name,
                              LoxClass(ms.nid, Lex(stmt.Name), s1.val, ms.methods)))))

Interp_executeFunDeclStmt(st, stmt) ==
    env_define([st EXCEPT !.nid = @ + 1], st.env, Lex(stmt.Name),
               LoxFunction(st.nid, stmt, st.env, FALSE))

Interp_execute(st, stmt) ==
    CASE stmt.k = "ReturnStmt" -> Interp_executeReturnStmt(st, stmt)
      [] stmt.k = "PrintStmt" -> Interp_executePrintStmt(st, stmt)
      [] stmt.k = "ExprStmt" -> Interp_evaluate(st, stmt.Expression)
      [] stmt.k = "IfStmt" -> Interp_executeIfStmt(st, stmt)
      [] stmt.k = "WhileStmt" -> Interp_executeWhileStmt(st, stmt)
      [] stmt.k = "VarDeclStmt" -> Interp_executeValDeclStmt(st, stmt)
      [] stmt.k = "ClassDeclStmt" -> Interp_executeClassDeclStmt(st, stmt)
      [] stmt.k = "FunDeclStmt" -> Interp_executeFunDeclStmt(st, stmt)
      [] stmt.k = "BlockStmt" ->
           Interp_executeBlockStmt(newEnv(st, st.env), stmt.Statements, Len(st.envs) + 1)
      [] OTHER -> GoPanic(st)

\* interpret: the statements in order; the deferred function reports a
\* runtimeError on os.Stdout, and its type assertion fails on any other
\* panic value
Interp_interpret(st, statements) == Interp_executeFrom(st, statements, 1)

-----------------------------------------------------------------------------
(* The interpreter object and its one operation, Run.  A world is the       *)
(* record of everything Run reads and writes: the Interp object (interp),   *)
(* the two heaps, the four streams and whether the process has died of an   *)
(* uncaught panic.                                                          *)

\* New: the globals frame holds the built-in clock
NewWorld ==
    [interp |-> [hadCompileError |-> FALSE, hadRuntimeError |-> FALSE,
                 env |-> GlobalEnv, locals |-> EmptyMap, nid |-> 1],
     envs |-> <<[values |-> Put(EmptyMap, "clock", Clock), enclosing |-> 0]>>,
     insts |-> <<>>, out |-> <<>>, errOut |-> <<>>, stdout |-> <<>>, stderr |-> <<>>,
     crashed |-> FALSE]

\* the deferred function without the assignment to hadRuntimeError
recover_flagNotSet(w, s) ==
    IF s.ctl = "ok" THEN w
    ELSE IF s.ctl = "rte"
    THEN [w EXCEPT !.stdout = @ \o <<s.err.message,
                                     "[line " \o ToString(s.err.token.Line) \o "]">>]
    ELSE [w EXCEPT !.crashed = TRUE]

\* the deferred function of interpret, given how the statements ended
Interp_recover(w, s) ==
    IF s.ctl = "ok" THEN w
    ELSE IF s.ctl = "rte"
    THEN [w EXCEPT !.stdout = @ \o <<s.err.message,
                                     "[line " \o ToString(s.err.token.Line) \o "]">>,
                   !.interp.hadRuntimeError = TRUE]
    ELSE [w EXCEPT !.crashed = TRUE]

\* Run that goes on to interpret whatever the resolver reported
Run_resolverErrorsIgnored(w, script, now) ==
    Bind(Scanner_ScanTokens(script), LAMBDA scanner :
    Bind(Parser_Parse(NewParser(scanner.tokens, w.interp.nid)), LAMBDA parsed :
        LET parser == parsed.p
            w1 == [w EXCEPT !.errOut = @ \o scanner.errs, !.stderr = @ \o parser.errs,
                            !.interp.nid = parser.nid]
        IN
        IF parser.crash THEN [w1 EXCEPT !.crashed = TRUE]
        ELSE IF scanner.hadError \/ parser.hadError
        THEN [w1 EXCEPT !.interp.hadCompileError = TRUE]
        ELSE
    Bind(Resolver_resolve(NewResolver(w.interp.locals), parsed.stmts), LAMBDA resolver :
        LET w2 == [w1 EXCEPT !.stderr = @ \o resolver.errs,
                             !.interp.locals = resolver.locals]
            st == [envs |-> w.envs, insts |-> w.insts, env |-> w.interp.env,
                   locals |-> resolver.locals, out |-> w.out, nid |-> parser.nid,
                   now |-> now, ctl |-> "ok", val |-> Nil,
                   err |-> [token |-> NilToken, message |-> ""]]
        IN
        IF resolver.crash THEN [w2 EXCEPT !.crashed = TRUE]
        ELSE
    Bind(Interp_interpret(st, parsed.stmts), LAMBDA s :
        Interp_recover([w2 EXCEPT !.envs = s.envs, !.insts = s.insts, !.out = s.out,
                                  !.interp.nid = s.nid, !.interp.env = s.env], s)))))

\* Run(script) in world w, at a moment when the system clock reads now: the
\* world it leaves
Interp_Run(w, script, now) ==
    Bind(Scanner_ScanTokens(script), LAMBDA scanner :
    Bind(Parser_Parse(NewParser(scanner.tokens, w.interp.nid)), LAMBDA parsed :
        LET parser == parsed.p
            w1 == [w EXCEPT !.errOut = @ \o scanner.errs, !.stderr = @ \o parser.errs,
                            !.interp.nid = parser.nid]
        IN
        IF parser.crash THEN [w1 EXCEPT !.crashed = TRUE]
        ELSE IF scanner.hadError \/ parser.hadError
        THEN [w1 EXCEPT !.interp.hadCompileError = TRUE]
        ELSE
    Bind(Resolver_resolve(NewResolver(w.interp.locals), parsed.stmts), LAMBDA resolver :
        LET w2 == [w1 EXCEPT !.stderr = @ \o resolver.errs,
                             !.interp.locals = resolver.locals]
            st == [envs |-> w.envs, insts |-> w.insts, env |-> w.interp.env,
                   locals |-> resolver.locals, out |-> w.out, nid |-> parser.nid,
                   now |-> now, ctl |-> "ok", val |-> Nil,
                   err |-> [token |-> NilToken, message |-> ""]]
        IN
        IF resolver.crash THEN [w2 EXCEPT !.crashed = TRUE]
        ELSE IF resolver.hadError THEN [w2 EXCEPT !.interp.hadCompileError = TRUE]
        ELSE
    Bind(Interp_interpret(st, parsed.stmts), LAMBDA s :
        Interp_recover([w2 EXCEPT !.envs = s.envs, !.insts = s.insts, !.out = s.out,
                                  !.interp.nid = s.nid, !.interp.env = s.env], s)))))

-----------------------------------------------------------------------------
(* Bounds and inputs *)

\* the number of Run calls made on one interpreter
MaxRuns == 2

\* the readings of the system clock
Times == {1700000000}

\* the number of frames and of operations in a session with the frames alone
MaxEnvs == 3

MaxEnvOps == 4

\* the names and the values given to define and assign
EnvNames == {"a", "b"}

EnvValues == {Num(1), Num(2)}

-----------------------------------------------------------------------------
(* The scripts given to Run *)

\* a function declared in a block reads a name that is only a global there
ClosureScript ==
    "var a = \"global\"; { fun f() { print a; } f(); var a = "
    \o "\"block\"; f(); print a; }"

\* the function is called after its block has ended
ClosureLaterScript ==
    "var g; { fun f() { print a; } var a = \"block\"; g = f; } "
    \o "g();"

\* two closures from two calls of the same function
CounterScript ==
    "fun makeCounter() { var i = 0; fun count() { i = i + 1; "
    \o "print i; } return count; } var c1 = makeCounter(); var c2 = "
    \o "makeCounter(); c1(); c1(); c2();"

\* a method of B reads super.m and is invoked on an instance of C
SuperScript ==
    "class A { m() { print \"A.m\"; print this.n; } } class B < A "
    \o "{ m() { print \"B.m\"; } t() { super.m(); } } class C < B { "
    \o "m() { print \"C.m\"; } } var c = C(); c.n = \"c\"; c.t();"

\* super.m where no class of the superclass chain has m
SuperMissingScript ==
    "class A {} class B < A { t() { super.m(); } } B().t();"

\* init called by the class and directly, ending by a bare return in nested blocks
InitScript ==
    "class Foo { init() { this.x = 1; if (true) { { return; } } "
    \o "this.x = 2; } } var f = Foo(); print f.x; f.x = 3; print "
    \o "f.init() == f; print f.x; print Foo() == nil;"

\* init whose body ends naturally
InitPlainScript ==
    "class Bar { init(v) { this.v = v; } } var b = Bar(1); print "
    \o "b.init(2) == b; print b.v; print b.init(3);"

\* return from nested loops and blocks, in a call made by another call
ReturnScript ==
    "fun f() { while (true) { if (true) { return 1; } } print "
    \o "\"no\"; } fun g() { print f(); print \"after\"; return; print "
    \o "\"no\"; } print g(); fun h() {} print h();"

\* and, or with an operand that has a side effect
LogicalScript ==
    "fun s(v) { print \"side\"; return v; } print nil and s(1); "
    \o "print false and s(1); print \"hi\" or s(1); print 0 or s(1); "
    \o "print 1 and s(2); print nil or s(\"x\"); print true and "
    \o "s(nil);"

\* a runtime error between two statements
RuntimeErrorScript ==
    "var a = 1;\nprint a;\nprint -\"x\";\nprint 2; a = 2;"

\* a runtime error inside a block of a function body
RuntimeErrorInCallScript ==
    "var b = \"kept\"; fun boom() { { print \"in\"; nil(); } print "
    \o "\"no\"; } boom(); b = \"lost\";"

\* reads and updates the global of RuntimeErrorScript
AfterErrorScript ==
    "print a; a = a + 1; print a;"

\* a declaration without a name
ParseErrorScript ==
    "print \"before\"; var = 1;"

\* defines a global that a later Run can see
ProbeScript ==
    "var i = \"outer\"; print i; print clock;"

\* a class that names itself as its superclass
SelfInheritScript ==
    "print \"start\"; class Bar < Bar {}"

\* a for loop without a condition, left by return
InfiniteForScript ==
    "fun printTo(n) { var i = 0; for (;;) { print i; i = i + 1; "
    \o "if (i > n) return; } } printTo(3);"

\* all three clauses, each with a visible effect; i is read after the loop
ForScript ==
    "fun t(x) { print x; return x; } for (var i = t(0); t(i) < "
    \o "2; i = t(i + 1)) print \"b\"; print i;"

ForAsWhileScript ==
    "fun t(x) { print x; return x; } { var i = t(0); while (t(i) "
    \o "< 2) { print \"b\"; i = t(i + 1); } } print i;"

\* no increment clause
ForNoIncrementScript ==
    "for (var k = 0; k < 2;) { print k; k = k + 1; }"

ForNoIncrementAsWhileScript ==
    "{ var k = 0; while (k < 2) { { print k; k = k + 1; } } }"

\* no initializer clause
ForNoInitializerScript ==
    "var n = 0; for (; n < 2; n = n + 1) print n; print n;"

ForNoInitializerAsWhileScript ==
    "var n = 0; { while (n < 2) { print n; n = n + 1; } } print "
    \o "n;"

\* an expression statement as initializer, a body that never runs
ForExprInitializerScript ==
    "var m; for (m = 5; m < 3; m = m + 1) print m; print m;"

ForExprInitializerAsWhileScript ==
    "var m; { m = 5; while (m < 3) { print m; m = m + 1; } } "
    \o "print m;"

\* a character that begins no token, after statements that are valid
ScanErrorScript ==
    "print \"before\"; var x = 1; @"

\* a variable, a parameter, a function and a class declared twice in a block
DuplicateLocalScript ==
    "print \"before\"; var g = 1; { var a = 1; var a = 2; fun f"
    \o "(p, p) {} fun f() {} class K {} class K {} }"

\* a global declared three times
GlobalRedeclareScript ==
    "var r = 1; var r = 2; print r; fun r() {} print r; class r"
    \o " {} print r;"

\* m is overridden in B, a is defined in A only, z nowhere
MethodInheritScript ==
    "class A { m() { print \"A.m\"; } a() { print \"A.a\"; } } "
    \o "class B < A { m() { print \"B.m\"; } } class C < B {} var "
    \o "c = C(); c.m(); c.a(); c.z();"

\* a field named like a method, on one of two instances
FieldShadowScript ==
    "class A { m() { print \"method\"; } } var a = A(); var b ="
    \o " A(); a.m = \"field\"; a.x = 1; print a.m; print a.x; b.m("
    \o "); print b.x;"

\* a method read from a, kept in a variable and in a field of b
BoundMethodScript ==
    "class P { who() { print this.n; } } var a = P(); a.n = \"a"
    \o "\"; var b = P(); b.n = \"b\"; var f = a.who; f(); b.who = "
    \o "f; b.who(); b.who = P().who; b.who();"

\* a stray } followed by valid declarations
SyncStrayBraceScript ==
    "var a; fun echo(n) { print n;}} a = 1; fun add(a, b) { ret"
    \o "urn a + b;}"

\* two errors: the tokens after the first are skipped up to print
SyncKeywordScript ==
    "} a = 1 print var = 2; print 3;"

\* return in nested statements of a function and of a method, then at top level
ReturnTopLevelScript ==
    "fun f() { if (true) { return; } while (false) { return 1; "
    \o "} } class K { m() { return 2; } } return;"

\* super outside any class
SuperOutsideScript ==
    "print super.m;"

\* super in a class without superclass
SuperNoSuperclassScript ==
    "class A { m() { super.m(); } }"

\* the difference of two readings of the clock
ClockScript ==
    "var then = clock(); var now = clock(); print (now - then) "
    \o "<= 1;"

\* unexpected characters between valid tokens
UnexpectedCharScript ==
    "var x = 1 # 2; @ print x;"

\* a string that never ends, alone
UnterminatedStringScript ==
    "\"abc"

\* a string that never ends, after a statement and over two lines
UnterminatedLaterScript ==
    "print 1; \"ab\ncd"

\* a number that starts with a dot
LeadingDotScript ==
    ".1234"

\* a number that ends with a dot
TrailingDotScript ==
    "1234."

\* a number with a fractional part
FloatScript ==
    "12.349"

\* every digit in the whole part and in the fractional part
AllDigitsScript ==
    "1234567890.0987654321"

\* a method of a class with a superclass reads and assigns a variable of the
\* block that declares the class
SubclassLocalScript ==
    "class A {} { var x = \"local\"; class B < A { m() { print x; x = \"set\"; "
    \o "print this.n; } } var b = B(); b.n = \"b\"; b.m(); print x; }"

\* the same with a class that has no superclass
ClassLocalScript ==
    "{ var x = \"local\"; class B { m() { print x; x = \"set\"; "
    \o "print this.n; } } var b = B(); b.n = \"b\"; b.m(); print x; }"

\* a class whose superclass is declared in the same block
BlockSuperclassScript ==
    "{ class A { m() { print \"A.m\"; } } class B < A {} var b = B(); b.m(); }"

\* a return that unwinds two blocks, a block left normally, and a runtime
\* error in a block, each followed by a read of the variable of the caller
BalanceScript ==
    "fun f() { var x = \"f\"; { var x = \"deep\"; return x; } } { var x = \"outer\"; "
    \o "print f(); print x; { var x = \"inner\"; print x; } print x; print nope; }"

\* a string is called with two arguments that print
BadCallScript ==
    "fun side(n) { print n; return n; } var m = \"hello\"; m(side(1), side(2));"

\* a string is called with an argument that fails
BadCallArgErrorScript ==
    "var m = \"hello\"; m(nope);"

\* the callee and the arguments print; the second call has one argument too many
CallOrderScript ==
    "fun side(n) { print n; return n; } fun pick() { print \"callee\"; return side; } "
    \o "print pick()(side(1)); pick()(side(2), side(3));"

\* a string is added to the built-in function, and to what it returns
StringPlusBuiltinScript ==
    "print \"before\"; print \"f=\" + clock; print \"after\";"

StringPlusClockScript ==
    "print \"before\"; print \"t=\" + clock(); print \"after\";"

\* errors in the passes of a block, and a block that the source ends in
BlockErrorScript ==
    "{ var a = ; print 1; a b } print 2; { print"

\* errors in the body of a class, and a class that the source ends in
ClassBodyErrorScript ==
    "class A { m() { print 1; } 2 } class B { m( } class C { m() {} "

\* no token but the end of the stream
EmptyScript ==
    ""

\* the programs that a session starts with
Scripts ==
    {ClosureScript, CounterScript, SuperScript, SuperMissingScript, InitScript,
     InitPlainScript, ReturnScript, LogicalScript, RuntimeErrorScript,
     RuntimeErrorInCallScript, ParseErrorScript, ProbeScript, SelfInheritScript,
     InfiniteForScript, ForScript, ForNoIncrementScript, ForNoInitializerScript,
     ForExprInitializerScript, ScanErrorScript, DuplicateLocalScript,
     GlobalRedeclareScript, MethodInheritScript, FieldShadowScript, BoundMethodScript,
     SyncStrayBraceScript, SyncKeywordScript, ReturnTopLevelScript, SuperOutsideScript,
     SuperNoSuperclassScript, ClockScript, UnexpectedCharScript,
     UnterminatedStringScript, UnterminatedLaterScript, LeadingDotScript,
     TrailingDotScript, FloatScript, AllDigitsScript, SubclassLocalScript,
     ClassLocalScript, BlockSuperclassScript, BalanceScript,
     BadCallScript, BadCallArgErrorScript, CallOrderScript, StringPlusBuiltinScript,
     StringPlusClockScript, BlockErrorScript, ClassBodyErrorScript, EmptyScript}

\* the scripts that are also run on an interpreter that has run before
Lines ==
    {ClosureScript, ClosureLaterScript, AfterErrorScript, RuntimeErrorScript,
     RuntimeErrorInCallScript, ForScript, LogicalScript, DuplicateLocalScript}

World ==
    [interp |-> interp, envs |-> envs, insts |-> insts, out |-> out, errOut |-> errOut,
     stdout |-> stdout, stderr |-> stderr, crashed |-> crashed]

Init ==
    /\ interp = NewWorld.interp
    /\ envs = NewWorld.envs
    /\ insts = NewWorld.insts
    /\ out = NewWorld.out
    /\ errOut = NewWorld.errOut
    /\ stdout = NewWorld.stdout
    /\ stderr = NewWorld.stderr
    /\ crashed = NewWorld.crashed
    /\ runs = 0
    /\ last = [script |-> "", now |-> 0, before |-> NewWorld]

\* one call of Run on a live interpreter
Run(script, now) ==
    /\ ~crashed
    /\ runs < MaxRuns
    /\ \E w \in {Interp_Run(World, script, now)} :
       /\ interp' = w.interp
       /\ envs' = w.envs
       /\ insts' = w.insts
       /\ out' = w.out
       /\ errOut' = w.errOut
       /\ stdout' = w.stdout
       /\ stderr' = w.stderr
       /\ crashed' = w.crashed
       /\ runs' = runs + 1
       /\ last' = [script |-> script, now |-> now, before |-> World]

Next == \E script \in (IF runs = 0 THEN Scripts ELSE Lines), now \in Times : Run(script, now)

Spec == Init /\ [][Next]_vars

-----------------------------------------------------------------------------
(* The frames alone: newEnv, define and assign called as env_test.go calls   *)
(* them.  The frames are those of envs; last records the latest call.        *)

NameToken(name) == Token("IdentifierToken", Runes(name), 1)

\* the state that the operations on frames are given
EnvState ==
    [envs |-> envs, ctl |-> "ok", val |-> Nil, err |-> [token |-> NilToken, message |-> ""]]

EnvCalled(op, e, name, value, s) ==
    /\ envs' = s.envs
    /\ runs' = runs + 1
    /\ last' = [op |-> op, e |-> e, name |-> name, value |-> value, before |-> envs,
                raised |-> s.ctl = "rte", message |-> s.err.message]
    /\ UNCHANGED <<interp, insts, out, errOut, stdout, stderr, crashed>>

EnvNew(enclosing) ==
    /\ runs < MaxEnvOps
    /\ Len(envs) < MaxEnvs
    /\ enclosing <= Len(envs)
    /\ EnvCalled("newEnv", Len(envs) + 1, "", Nil, newEnv(EnvState, enclosing))

EnvDefine(e, name, value) ==
    /\ runs < MaxEnvOps
    /\ e \in 1..Len(envs)
    /\ EnvCalled("define", e, name, value, env_define(EnvState, e, name, value))

EnvAssign(e, name, value) ==
    /\ runs < MaxEnvOps
    /\ e \in 1..Len(envs)
    /\ EnvCalled("assign", e, name, value, env_assign(EnvState, e, NameToken(name), value))

EnvInit ==
    /\ interp = NewWorld.interp
    /\ envs = NewWorld.envs
    /\ insts = NewWorld.insts
    /\ out = NewWorld.out
    /\ errOut = NewWorld.errOut
    /\ stdout = NewWorld.stdout
    /\ stderr = NewWorld.stderr
    /\ crashed = NewWorld.crashed
    /\ runs = 0
    /\ last = [op |-> "New", e |-> GlobalEnv, name |-> "", value |-> Nil,
               before |-> NewWorld.envs, raised |-> FALSE, message |-> ""]

EnvNext ==
    \E e \in 0..MaxEnvs, name \in EnvNames, value \in EnvValues :
        \/ EnvNew(e)
        \/ EnvDefine(e, name, value)
        \/ EnvAssign(e, name, value)

EnvSpec == EnvInit /\ [][EnvNext]_vars

-----------------------------------------------------------------------------
(* What an observer of the latest Run sees *)

Ran(script) == runs > 0 /\ last.script = script

\* the lines that the latest Run wrote to the output writer
LastOut == SubSeq(out, Len(last.before.out) + 1, Len(out))

\* the lines that the latest Run wrote to os.Stdout
LastStdout == SubSeq(stdout, Len(last.before.stdout) + 1, Len(stdout))

\* the lines that the latest Run wrote to the error writer and to os.Stderr
LastDiagnostics ==
    SubSeq(errOut, Len(last.before.errOut) + 1, Len(errOut))
    \o SubSeq(stderr, Len(last.before.stderr) + 1, Len(stderr))

\* interpret reports a runtime error, and nothing else, on os.Stdout
LastRunRaised == runs > 0 /\ LastStdout # <<>>

Globals == envs[GlobalEnv].values

GlobalsBefore == last.before.envs[GlobalEnv].values

HoldsNumber(values, name, n) ==
    Has(values, name) /\ values[name].t = "num" /\ values[name].v = n

HoldsString(values, name, s) ==
    Has(values, name) /\ values[name].t = "str" /\ values[name].v = s

\* what a world shows from outside: the streams, the flags, the current
\* frame and what printing each global would write
Shown(w) ==
    [out |-> w.out, errOut |-> w.errOut, stdout |-> w.stdout, stderr |-> w.stderr,
     crashed |-> w.crashed, hadCompileError |-> w.interp.hadCompileError,
     hadRuntimeError |-> w.interp.hadRuntimeError, env |-> w.interp.env,
     globals |-> [n \in DOMAIN w.envs[GlobalEnv].values |->
                     stringify(w, w.envs[GlobalEnv].values[n])]]

-----------------------------------------------------------------------------
(* Properties *)

\* C1: a function's reference to a variable denotes the binding that was
\* lexically visible where the reference is written.  The function of
\* ClosureScript is declared in a block where a is only a global: both of its
\* calls print the global, also the one made after the block has declared
\* its own a, while the block itself then reads its own a.  The function of
\* ClosureLaterScript, called after its block has ended, reads the global a
\* of the session, or fails for want of one, and never the a of the block.
C1_LexicalBinding ==
    /\ Ran(ClosureScript) =>
         ~crashed /\ LastOut = <<"global", "global", "block">> /\ ~LastRunRaised
    /\ Ran(ClosureLaterScript) =>
         /\ ~crashed
         /\ IF Has(GlobalsBefore, "a")
            THEN LastOut = <<stringify(last.before, GlobalsBefore["a"])>> /\ ~LastRunRaised
            ELSE LastOut = <<>> /\ LastStdout = <<"Undefined variable 'a'.", "[line 1]">>

C1_Witness ==
    \/ Ran(ClosureScript) /\ LastOut = <<"global", "global", "block">>
          /\ HoldsNumber(GlobalsBefore, "a", 1)
    \/ Ran(ClosureLaterScript) /\ LastOut = <<"global">>

\* C2: every call of a user function creates a fresh frame.  The two
\* counters of CounterScript come from two calls of makeCounter: the first,
\* called twice, counts 1 and 2 in its own variable, and the second then
\* counts 1 in its own.
C2_FreshFramePerCall ==
    Ran(CounterScript) => ~crashed /\ LastOut = <<"1", "2", "1">> /\ ~LastRunRaised

C2_Witness == Ran(CounterScript) /\ LastOut = <<"1", "2", "1">> /\ Len(envs) >= 6

\* C3: super.m in a method of B, invoked on an instance of C (C < B < A),
\* runs A's m with this being the instance of C; when no class above B has
\* m, the runtime error "Undefined method 'm'." is raised.
C3_SuperStartsAtLexicalSuperclass ==
    /\ Ran(SuperScript) => ~crashed /\ LastOut = <<"A.m", "c">> /\ ~LastRunRaised
    /\ Ran(SuperMissingScript) =>
         ~crashed /\ LastStdout = <<"Undefined method 'm'.", "[line 1]">>

\* C4: an initializer always yields the instance it is bound to: called by
\* the class or directly on an instance, and whether its body ends naturally
\* or by a bare return inside nested blocks.
C4_InitializerYieldsInstance ==
    /\ Ran(InitScript) =>
         ~crashed /\ LastOut = <<"1", "true", "1", "false">> /\ ~LastRunRaised
    /\ Ran(InitPlainScript) =>
         ~crashed /\ LastOut = <<"true", "2", "<instance Bar>">> /\ ~LastRunRaised

C4_Witness ==
    Ran(InitScript) /\ LastOut = <<"1", "true", "1", "false">> /\ Len(insts) = 2

\* C5: return ends exactly the innermost active call.  In ReturnScript f
\* returns 1 from inside a loop, an if and a block, its caller g goes on
\* with its next statement and ends by a bare return, which yields nil, as
\* does h, whose body ends without return.
C5_ReturnEndsInnermostCall ==
    Ran(ReturnScript) =>
        ~crashed /\ LastOut = <<"1", "after", "nil", "nil">> /\ ~LastRunRaised

C5_Witness == Ran(ReturnScript) /\ LastOut = <<"1", "after", "nil", "nil">>

\* C6: and, or evaluate the right operand only when the left one does not
\* decide, and yield the deciding operand itself, never its truth value.
\* LogicalScript prints seven such results; "side" is printed exactly when
\* the right operand is evaluated.
C6_ShortCircuit ==
    Ran(LogicalScript) =>
        /\ ~crashed /\ ~LastRunRaised
        /\ LastOut = <<"nil", "false", "hi", "0", "side", "2", "side", "x", "side", "nil">>

C6_Witness ==
    Ran(LogicalScript) /\ Len(LastOut) = 10 /\ LastOut[5] = "side" /\ LastOut[3] = "hi"

\* C7: a runtime error ends the Run that raised it, and only that Run: the
\* statements after the error are not executed, the output written before
\* it is kept, hadRuntimeError is set and hadCompileError is left as it was,
\* and a later Run executes normally and sees the globals as they were
\* defined before the error.
C7_RuntimeErrorEndsOnlyThatRun ==
    /\ LastRunRaised =>
         /\ ~crashed
         /\ interp.hadRuntimeError
         /\ interp.hadCompileError = last.before.interp.hadCompileError
         /\ SubSeq(out, 1, Len(last.before.out)) = last.before.out
    /\ Ran(RuntimeErrorScript) =>
         /\ LastRunRaised
         /\ LastOut = <<"1">>
         /\ LastStdout = <<"Operand must be a number.", "[line 3]">>
         /\ HoldsNumber(Globals, "a", 1)
    /\ Ran(RuntimeErrorInCallScript) =>
         /\ LastRunRaised
         /\ LastOut = <<"in">>
         /\ HoldsString(Globals, "b", "kept")
    /\ Ran(AfterErrorScript) /\ last.before.interp.hadRuntimeError
          /\ HoldsNumber(GlobalsBefore, "a", 1) =>
         /\ ~LastRunRaised
         /\ ~crashed
         /\ LastOut = <<"1", "2">>
         /\ HoldsNumber(Globals, "a", 2)

C7_Witness ==
    /\ Ran(AfterErrorScript)
    /\ last.before.interp.hadRuntimeError
    /\ last.before.out = <<"1">>
    /\ out = <<"1", "1", "2">>

\* C8: a class that names itself as its superclass is rejected before
\* evaluation with the compile error "A class can't inherit from itself." at
\* the superclass name: hadCompileError is set, hadRuntimeError stays as it
\* was and no statement of the script is executed.
C8_SelfInheritanceRejected ==
    Ran(SelfInheritScript) =>
        /\ interp.hadCompileError
        /\ interp.hadRuntimeError = last.before.interp.hadRuntimeError
        /\ LastOut = <<>>
        /\ LastDiagnostics = <<"[line 1] Error at 'Bar': A class can't inherit from itself.">>

\* C9: a for loop without a condition repeats its body until a return or a
\* runtime error leaves it: printTo(3) of InfiniteForScript prints 0 to 3.
C9_OmittedConditionLoops ==
    Ran(InfiniteForScript) => ~crashed /\ LastOut = <<"0", "1", "2", "3">>

\* the for loops of the session, each with the block and while loop that it
\* stands for
ForPairs ==
    {<<ForScript, ForAsWhileScript>>,
     <<ForNoIncrementScript, ForNoIncrementAsWhileScript>>,
     <<ForNoInitializerScript, ForNoInitializerAsWhileScript>>,
     <<ForExprInitializerScript, ForExprInitializerAsWhileScript>>}

\* C10: for (I; C; U) B runs exactly like { I; while (C) { B; U; } }: from
\* the same world, a Run of the for loop and a Run of the block leave worlds
\* that show the same.  In ForScript every clause prints: I runs once, then
\* C is tested before each pass of B, and U runs after B; the variable of I
\* is gone after the loop, so that reading i then finds the global i or none.
C10_ForRunsLikeWhile ==
    /\ \A pair \in ForPairs :
         Ran(pair[1]) => Shown(World) = Shown(Interp_Run(last.before, pair[2], last.now))
    /\ Ran(ForScript) =>
         IF Has(GlobalsBefore, "i")
         THEN LastOut = <<"0", "0", "b", "1", "1", "b", "2", "2",
                          stringify(last.before, GlobalsBefore["i"])>>
         ELSE /\ LastOut = <<"0", "0", "b", "1", "1", "b", "2", "2">>
              /\ LastStdout = <<"Undefined variable 'i'.", "[line 1]">>

C10_Witness ==
    /\ Ran(ForScript)
    /\ HoldsString(GlobalsBefore, "i", "outer")
    /\ LastOut = <<"0", "0", "b", "1", "1", "b", "2", "2", "outer">>

\* whether the interpreter's flags are as the latest Run found them
FlagsKept ==
    /\ interp.hadCompileError = last.before.interp.hadCompileError
    /\ interp.hadRuntimeError = last.before.interp.hadRuntimeError

\* C11: a Run whose script the scanner, the parser or the resolver reports
\* an error for executes nothing of it: no line is printed, no runtime error
\* is raised, the frames and the instances are as before (so that no global
\* is defined or assigned), hadRuntimeError keeps its value, and Run sets
\* hadCompileError when it returns.  The statement in error comes last in
\* ScanErrorScript, ParseErrorScript and DuplicateLocalScript, so that this
\* holds for the statements before it.
C11_CompileErrorSkipsEvaluation ==
    (runs > 0 /\ LastDiagnostics # <<>>) =>
        /\ LastOut = <<>>
        /\ LastStdout = <<>>
        /\ envs = last.before.envs
        /\ insts = last.before.insts
        /\ interp.hadRuntimeError = last.before.interp.hadRuntimeError
        /\ ~crashed => interp.hadCompileError

C11_Witness ==
    /\ runs = 2
    /\ Ran(DuplicateLocalScript)
    /\ Len(LastDiagnostics) = 4
    /\ last.before.interp.hadRuntimeError
    /\ interp.hadRuntimeError
    /\ interp.hadCompileError
    /\ ~last.before.interp.hadCompileError

\* C12: a method is looked up in the class of the instance first and then
\* up the superclass chain, and the first class that has the name wins.  In
\* MethodInheritScript, on an instance of C < B < A, m is B's (it overrides
\* A's), a is found in A through two levels, and z, which no class has, is
\* the one that fails.
C12_FindMethodWalksChain ==
    Ran(MethodInheritScript) =>
        /\ ~crashed
        /\ LastOut = <<"B.m", "A.a">>
        /\ LastStdout = <<"Undefined field or method 'z'.", "[line 1]">>

C12_Witness ==
    Ran(MethodInheritScript) /\ LastOut = <<"B.m", "A.a">> /\ interp.hadRuntimeError

\* C13: reading a property yields the field of that name when the instance
\* has one, also when the class has a method of that name; the method,
\* bound, when it has none; and the runtime error "Undefined field or
\* method" when there is neither.  A field is the instance's own: in
\* FieldShadowScript a has fields m and x, and b, of the same class, still
\* has the method m and no x.
C13_FieldBeforeMethod ==
    Ran(FieldShadowScript) =>
        /\ ~crashed
        /\ LastOut = <<"field", "1", "method">>
        /\ LastStdout = <<"Undefined field or method 'x'.", "[line 1]">>

C13_Witness ==
    Ran(FieldShadowScript) /\ LastOut = <<"field", "1", "method">> /\ LastRunRaised

\* C14: a method read from an instance stays bound to it.  In
\* BoundMethodScript the method who of a is called from a variable and then
\* from a field of b: both calls print the n of a, not that of b; and the
\* method of a new instance, called from a field of b, finds no n at all,
\* though b has one.
C14_BoundMethodKeepsThis ==
    Ran(BoundMethodScript) =>
        /\ ~crashed
        /\ LastOut = <<"a", "a">>
        /\ LastStdout = <<"Undefined field or method 'n'.", "[line 1]">>

C14_Witness ==
    /\ Ran(BoundMethodScript)
    /\ LastOut = <<"a", "a">>
    /\ HoldsString(insts[Globals["b"].ref].fields, "n", "b")
    /\ insts[Globals["b"].ref].fields["who"].t = "fun"

\* the kinds of the statements that Parse yields for a script
ParsedKinds(script) ==
    Bind(Parser_Parse(NewParser(Scanner_ScanTokens(script).tokens, 1)), LAMBDA parsed :
        [n \in 1..Len(parsed.stmts) |-> parsed.stmts[n].k])

\* C15: after an error in a declaration the parser goes on: it skips tokens
\* until it has passed a ';' or stands before class, fun, var, for, if,
\* while, print or return (or at the end), parses declarations from there,
\* says nothing about what it skipped, and has its error flag set.  In
\* SyncStrayBraceScript the stray } is the one diagnostic: a = 1; is
\* skipped, and the function after it is parsed.  In SyncKeywordScript the
\* skipping ends before print, whose statement is parsed and is in error
\* too; the statement after that one is parsed again.
C15_ParserSynchronizes ==
    /\ Ran(SyncStrayBraceScript) =>
         /\ ~crashed
         /\ LastDiagnostics = <<"[line 1] Error at '}': Expect expression.">>
         /\ interp.hadCompileError
         /\ ParsedKinds(SyncStrayBraceScript)
              = <<"VarDeclStmt", "FunDeclStmt", "nil", "FunDeclStmt">>
    /\ Ran(SyncKeywordScript) =>
         /\ ~crashed
         /\ LastDiagnostics = <<"[line 1] Error at '}': Expect expression.",
                                "[line 1] Error at 'var': Expect expression.">>
         /\ interp.hadCompileError
         /\ ParsedKinds(SyncKeywordScript) = <<"nil", "nil", "PrintStmt">>

C15_Witness ==
    Ran(SyncKeywordScript) /\ Len(LastDiagnostics) = 2 /\ interp.hadCompileError

\* C16: a name declared again in the same scope, other than the global one,
\* is the compile error "Variable already declared in this scope.", be it a
\* variable, a parameter, a function or a class (DuplicateLocalScript, one
\* diagnostic each); at global scope the declaration is accepted and the
\* name has the new value (GlobalRedeclareScript).
C16_RedeclarationOnlyGlobal ==
    /\ Ran(DuplicateLocalScript) =>
         /\ ~crashed
         /\ LastDiagnostics =
              <<"[line 1] Error at 'a': Variable already declared in this scope.",
                "[line 1] Error at 'p': Variable already declared in this scope.",
                "[line 1] Error at 'f': Variable already declared in this scope.",
                "[line 1] Error at 'K': Variable already declared in this scope.">>
         /\ interp.hadCompileError
    /\ Ran(GlobalRedeclareScript) =>
         /\ ~crashed
         /\ LastDiagnostics = <<>>
         /\ LastOut = <<"2", "<fun r>", "<class r>">>
         /\ ~LastRunRaised
         /\ FlagsKept

C16_Witness ==
    \/ Ran(DuplicateLocalScript) /\ Len(LastDiagnostics) = 4
    \/ Ran(GlobalRedeclareScript) /\ Globals["r"].t = "class"

C18_SuperNeedsSuperclass ==
    /\ Ran(SuperOutsideScript) =>
         /\ ~crashed
         /\ LastDiagnostics =
              <<"[line 1] Error at 'super': Can't use 'super' outside a class.">>
         /\ interp.hadCompileError
    /\ Ran(SuperNoSuperclassScript) =>
         /\ ~crashed
         /\ LastDiagnostics =
              <<"[line 1] Error at 'super': Can't use 'super' in a class with no superclass.">>
         /\ interp.hadCompileError
    /\ Ran(SuperScript) => ~crashed /\ LastDiagnostics = <<>>

\* C19: what print writes goes to the output writer, every diagnostic goes
\* to the error writer, and nothing is written to another stream: the
\* standard streams of the process, which are not the writers that the
\* interpreter was made with, stay empty.
C19_OnlyConfiguredWriters ==
    /\ stdout = <<>>
    /\ stderr = <<>>

\* C20: clock() yields a number: the difference of two readings is a number
\* that can be compared, and ClockScript prints true.
C20_ClockYieldsNumber ==
    Ran(ClockScript) => ~crashed /\ LastOut = <<"true">> /\ ~LastRunRaised

\* the tokens that the scanner yields for a script, each with its type and
\* its text
Scanned(script) ==
    Bind(Scanner_ScanTokens(script), LAMBDA s :
        [n \in 1..Len(s.tokens) |-> <<s.tokens[n].Type, Lex(s.tokens[n])>>])

EndOfStream == <<"EndToken", "">>

\* C21: a scan error does not end scanning.  The scanner has its error flag
\* set, yields no token for the text in error, scans on, so that the tokens
\* after an unexpected character are there, and the list it returns ends
\* with the one end-of-stream token; a string that never ends, alone, yields
\* that token only.
C21_ScanErrorGoesOn ==
    /\ runs > 0 =>
         LET toks == Scanned(last.script)
         IN /\ toks[Len(toks)] = EndOfStream
            /\ \A n \in 1..(Len(toks) - 1) : toks[n][1] # "EndToken"
    /\ Ran(UnexpectedCharScript) =>
         /\ Scanned(UnexpectedCharScript)
              = << <<"VarToken", "var">>, <<"IdentifierToken", "x">>, <<"EqualToken", "=">>,
                   <<"NumberToken", "1">>, <<"NumberToken", "2">>,
                   <<"SemicolonToken", ";">>, <<"PrintToken", "print">>,
                   <<"IdentifierToken", "x">>, <<"SemicolonToken", ";">>, EndOfStream >>
         /\ errOut = last.before.errOut
                        \o <<"[line 1] Error: Unexpected character.",
                             "[line 1] Error: Unexpected character.">>
         /\ interp.hadCompileError
    /\ Ran(UnterminatedStringScript) =>
         /\ Scanned(UnterminatedStringScript) = <<EndOfStream>>
         /\ errOut = last.before.errOut \o <<"[line 1] Error: Unterminated string.">>
         /\ interp.hadCompileError
    /\ Ran(UnterminatedLaterScript) =>
         /\ Scanned(UnterminatedLaterScript)
              = << <<"PrintToken", "print">>, <<"NumberToken", "1">>,
                   <<"SemicolonToken", ";">>, EndOfStream >>
         /\ errOut = last.before.errOut \o <<"[line 2] Error: Unterminated string.">>
         /\ interp.hadCompileError

C21_Witness ==
    /\ Ran(UnexpectedCharScript)
    /\ Len(errOut) = 2
    /\ Len(Scanned(UnexpectedCharScript)) = 10
    /\ interp.hadCompileError

\* C22: a number is a run of digits, then possibly a '.' with at least one
\* digit after it and the digits that follow; all ten digits are digits in
\* both parts; a '.' with no digit after it, or with none before it, is a
\* dot token of its own.
C22_NumberToken ==
    /\ Ran(LeadingDotScript) =>
         Scanned(LeadingDotScript)
           = << <<"DotToken", ".">>, <<"NumberToken", "1234">>, EndOfStream >>
    /\ Ran(TrailingDotScript) =>
         Scanned(TrailingDotScript)
           = << <<"NumberToken", "1234">>, <<"DotToken", ".">>, EndOfStream >>
    /\ Ran(FloatScript) =>
         Scanned(FloatScript) = << <<"NumberToken", "12.349">>, EndOfStream >>
    /\ Ran(AllDigitsScript) =>
         Scanned(AllDigitsScript)
           = << <<"NumberToken", "1234567890.0987654321">>, EndOfStream >>

C22_Witness ==
    /\ Ran(TrailingDotScript)
    /\ LastDiagnostics = <<"[line 1] Error at end: Expect property name after '.'.">>
    /\ Len(Scanned(TrailingDotScript)) = 3

\* C23: the distance that the resolver gives to a variable, an assignment or
\* this is the number of frames between the current frame and the frame that
\* holds the binding of the enclosing declaration, each time the expression
\* is evaluated: in a closure called where another binding of the name is
\* in scope (ClosureScript), in a method of a class without superclass
\* (ClassLocalScript) and in a method of a class with a superclass
\* (SubclassLocalScript), the variable of the declaring block is the one
\* read and assigned, and this is the instance.
C23_DistancesMatchChain ==
    /\ Ran(ClosureScript) =>
         ~crashed /\ LastOut = <<"global", "global", "block">>
    /\ Ran(ClassLocalScript) =>
         ~crashed /\ LastOut = <<"local", "b", "set">> /\ ~LastRunRaised
    /\ Ran(SubclassLocalScript) =>
         ~crashed /\ LastOut = <<"local", "b", "set">> /\ ~LastRunRaised

\* the entries that the latest Run added to the table of distances
NewLocals == (DOMAIN interp.locals) \ (DOMAIN last.before.interp.locals)

\* C24: after resolving, each expression that names a local (a variable
\* read, an assignment target, this, the superclass name of a class
\* declaration) has an entry in the table of distances, and a name declared
\* at global scope only has none and is read from the globals frame.
\* GlobalRedeclareScript, all of whose names are global, adds no entry;
\* BlockSuperclassScript names three locals, the superclass A among them,
\* and B, declared in the block of A, inherits from it.
C24_LocalsHaveDistances ==
    /\ Ran(GlobalRedeclareScript) =>
         NewLocals = {} /\ LastOut = <<"2", "<fun r>", "<class r>">>
    /\ Ran(BlockSuperclassScript) =>
         /\ ~crashed
         /\ Cardinality(NewLocals) = 3
         /\ LastOut = <<"A.m">>
         /\ ~LastRunRaised

\* C25: the frames are entered and left in pairs.  When a block or the body
\* of a function ends, normally, by a return that unwinds through it or by
\* a runtime error, the current frame is the one that was current before:
\* in BalanceScript the caller reads its own x after the call that returned
\* from two blocks down and after the inner block; and after every Run, one
\* that ended in a runtime error in a block or in a call also, the current
\* frame is the globals frame.
C25_FramesBalanced ==
    /\ ~crashed => interp.env = GlobalEnv
    /\ Ran(BalanceScript) =>
         /\ ~crashed
         /\ LastOut = <<"deep", "outer", "inner", "outer">>
         /\ LastStdout = <<"Undefined variable 'nope'.", "[line 1]">>

C25_Witness ==
    /\ Ran(BalanceScript)
    /\ LastRunRaised
    /\ interp.env = GlobalEnv
    /\ Len(envs) > Len(last.before.envs) + 3

BadCall == <<"Can only call functions and classes.", "[line 1]">>

\* C26: a call evaluates the callee; a callee that is not callable is the
\* runtime error "Can only call functions and classes." before any argument
\* is evaluated; otherwise the arguments are evaluated from left to right;
\* then a number of arguments other than the arity is the runtime error
\* "Expected N arguments but got M.", nothing of the body being executed;
\* then the callee is invoked.
C26_CallOrder ==
    /\ Ran(BadCallScript) => ~crashed /\ LastOut = <<>> /\ LastStdout = BadCall
    /\ Ran(BadCallArgErrorScript) => ~crashed /\ LastOut = <<>> /\ LastStdout = BadCall
    /\ Ran(CallOrderScript) =>
         /\ ~crashed
         /\ LastOut = <<"callee", "1", "1", "1", "callee", "2", "3">>
         /\ LastStdout = <<"Expected 1 arguments but got 2.", "[line 1]">>

\* C26, amended: a call evaluates the callee, then the arguments from left
\* to right, whatever the callee is; then a callee that is not callable is
\* the runtime error "Can only call functions and classes." (the arguments
\* have printed, and an argument that fails has raised its own error
\* instead); then a number of arguments other than the arity is the runtime
\* error "Expected N arguments but got M.", nothing of the body being
\* executed; then the callee is invoked.
C26_CallOrderArgumentsFirst ==
    /\ Ran(BadCallScript) => ~crashed /\ LastOut = <<"1", "2">> /\ LastStdout = BadCall
    /\ Ran(BadCallArgErrorScript) =>
         /\ ~crashed
         /\ LastOut = <<>>
         /\ LastStdout = <<"Undefined variable 'nope'.", "[line 1]">>
    /\ Ran(CallOrderScript) =>
         /\ ~crashed
         /\ LastOut = <<"callee", "1", "1", "1", "callee", "2", "3">>
         /\ LastStdout = <<"Expected 1 arguments but got 2.", "[line 1]">>

C26_Witness ==
    Ran(BadCallScript) /\ LastOut = <<"1", "2">> /\ LastStdout = BadCall

RECURSIVE Binder(_, _, _)
\* the first frame, from e along the parent links, that binds name; 0 when
\* none does
Binder(es, e, name) ==
    IF e = 0 THEN 0
    ELSE IF Has(es[e].values, name) THEN e
    ELSE Binder(es, es[e].enclosing, name)

\* every frame but f is as before, and f binds the same names but name
SameBut(f, name) ==
    /\ Len(envs) = Len(last.before)
    /\ \A g \in 1..Len(envs) :
         /\ envs[g].enclosing = last.before[g].enclosing
         /\ g # f => envs[g] = last.before[g]
         /\ \A n \in DOMAIN last.before[g].values :
              (g # f \/ n # name) =>
                  Has(envs[g].values, n) /\ envs[g].values[n] = last.before[g].values[n]

\* what get(name) called on frame e returns
GetFrom(e, name) == env_get(EnvState, e, NameToken(name))

\* C27: assign(name, v) writes v to the binding of name in the first frame,
\* from the receiver along the parent links, that binds it, changes nothing
\* else and adds no binding, and get(name) on the receiver then returns v;
\* when no frame of the chain binds the name it raises "Undefined variable
\* '<name>'." and changes nothing.  define writes the receiver frame only,
\* and get returns the binding of the first frame of the chain that has one.
C27_AssignNearestBinding ==
    /\ last.op = "assign" =>
         LET f == Binder(last.before, last.e, last.name)
         IN IF f = 0
            THEN /\ last.raised
                 /\ last.message = "Undefined variable '" \o last.name \o "'."
                 /\ envs = last.before
            ELSE /\ ~last.raised
                 /\ SameBut(f, last.name)
                 /\ DOMAIN envs[f].values = DOMAIN last.before[f].values
                 /\ envs[f].values[last.name] = last.value
                 /\ Ok(GetFrom(last.e, last.name))
                 /\ GetFrom(last.e, last.name).val = last.value
    /\ last.op = "define" =>
         /\ ~last.raised
         /\ SameBut(last.e, last.name)
         /\ DOMAIN envs[last.e].values = DOMAIN last.before[last.e].values \cup {last.name}
         /\ envs[last.e].values[last.name] = last.value
    /\ \A e \in 1..Len(envs), name \in EnvNames :
         LET f == Binder(envs, e, name)
         IN IF f = 0 THEN GetFrom(e, name).ctl = "rte"
            ELSE Ok(GetFrom(e, name)) /\ GetFrom(e, name).val = envs[f].values[name]

\* assign has written a frame up the chain from its receiver
C27_Witness ==
    /\ last.op = "assign"
    /\ ~last.raised
    /\ Binder(last.before, last.e, last.name) # last.e
    /\ envs # last.before
    /\ \E n \in EnvNames : Binder(envs, last.e, n) = 0

\* C28: when the scanner reports an error for a script, the parser is not
\* run on its tokens, so that the scan diagnostics are the only ones, and
\* the resolver and the evaluator are not run either: the table of
\* distances, the frames and the output are as before.
C28_ScanErrorSkipsParser ==
    (runs > 0 /\ errOut # last.before.errOut) =>
        /\ ~crashed
        /\ stderr = last.before.stderr
        /\ interp.hadCompileError
        /\ interp.locals = last.before.interp.locals
        /\ envs = last.before.envs
        /\ LastOut = <<>>
        /\ LastStdout = <<>>

\* C29: what fails while a script that the scanner, the parser and the
\* resolver accepted is evaluated fails as a runtime error, which interpret
\* catches, reports and records in hadRuntimeError; a Run never ends in a
\* failure of another kind.  A string added to the built-in function, or to
\* what it returns, is either a string or a runtime error: Run returns, and
\* the statement before it has printed.
C29_OnlyRuntimeErrors ==
    \A script \in {StringPlusBuiltinScript, StringPlusClockScript} :
        Ran(script) =>
            /\ ~crashed
            /\ LastOut # <<>>
            /\ LastOut[1] = "before"
            /\ Len(LastOut) < 3 => interp.hadRuntimeError /\ LastRunRaised

\* a parser of the tokens with its cursor at position k
ParserAt(tokens, k) == [NewParser(tokens, 1) EXCEPT !.current = k]

\* one pass of the loop of Parse or of a block, begun at position k, ends
\* further on and not beyond the end-of-stream token at position end, and
\* reads no token before position zero
PassAdvances(tokens, k, end) ==
    Bind(Parser_declaration(ParserAt(tokens, k)), LAMBDA d :
        ~d.p.crash /\ k < d.p.current /\ d.p.current <= end)

\* one pass of the loop of a class body likewise, unless it ends in an error
\* that unwinds to the declaration of the class
MethodPassAdvances(tokens, k, end) ==
    Bind(Parser_funDeclaration(ParserAt(tokens, k), "method"), LAMBDA f :
        ~f.p.crash /\ f.p.current <= end /\ (f.p.panicking \/ k < f.p.current))

\* Parse ends with its cursor on the end-of-stream token
ParseEndsAt(tokens, end) ==
    Bind(Parser_Parse(NewParser(tokens, 1)), LAMBDA parsed :
        ~parsed.p.crash /\ parsed.p.current = end)

\* C30: Parse ends on every list of tokens that ends with the end-of-stream
\* token.  From every position of the tokens of a script but the last, a
\* pass of the loop of Parse or of a block (a declaration, with the recovery
\* from its errors) consumes a token at least, and so does a pass of the
\* loop of a class body that does not end in an error; no pass moves the
\* cursor beyond the end-of-stream token, none reads the token before
\* position zero, and Parse leaves the cursor on the end-of-stream token.
C30_ParsePassesAdvance ==
    (runs = 1 \/ (runs > 1 /\ last.script \notin Scripts)) =>
        Bind(Scanner_ScanTokens(last.script).tokens, LAMBDA tokens :
            /\ ParseEndsAt(tokens, Len(tokens) - 1)
            /\ \A k \in 0..(Len(tokens) - 2) :
                 /\ PassAdvances(tokens, k, Len(tokens) - 1)
                 /\ tokens[k + 1].Type # "RightBraceToken" =>
                      MethodPassAdvances(tokens, k, Len(tokens) - 1))

C30_Witness ==
    /\ runs = 1
    /\ last.script \in {BlockErrorScript, ClassBodyErrorScript}
    /\ Len(LastDiagnostics) >= 3
    /\ interp.hadCompileError
    /\ ~crashed

=============================================================================
